---- MODULE Spec2Model ----
(***************************************************************************)
(* Model of the collection wrapper of news_scraper:                        *)
(* BaseScraper.get_latest_articles (sources/base_scraper.py) with the      *)
(* tools it drives (sources/tools.py) and the _collect_urls routines of    *)
(* the concrete sources (sources/en, sources/pt).                          *)
(*                                                                         *)
(* Rates.  A minimum success rate (MIN_SUCCESS_RATE, min_success_rate,     *)
(* min_rate) is a Python float with at most two decimals and is kept as    *)
(* its number of hundredths (0.6 is 60).  A success rate is the quotient   *)
(* len(urls) / limit and is kept as the exact fraction <<num, den>> in     *)
(* lowest terms; for the small integers met here the float comparison      *)
(* success_rate < min_rate agrees with the comparison of the exact         *)
(* values.                                                                 *)
(***************************************************************************)
EXTENDS Integers, Sequences, FiniteSets, TLC

\* Number of get_latest_articles calls made on the scraper in one behaviour.
MaxCalls == 2

\* Largest number of article links a source finds on its page.
MaxFound == 10

\* base_scraper.py:83
MAX_RETRIES == 3

VARIABLES
    source_id,          \* BaseScraper.source_id
    MIN_SUCCESS_RATE,   \* class attribute of the source, in hundredths
    HAS_PAYWALL,        \* class attribute of the source: "False", "True", "partial"
    metrics_history,    \* BaseScraper.metrics_history
    rl_last_request,    \* keys of RateLimiter._last_request of self.rate_limiter
    pc,                 \* position inside get_latest_articles
    limit,              \* argument limit
    min_success_rate,   \* argument min_success_rate
    raise_on_insufficient, \* argument raise_on_insufficient
    min_rate,           \* local min_rate, in hundredths
    attempt,            \* loop variable of "for attempt in range(MAX_RETRIES)"
    errors,             \* local errors: the attempt numbers of the messages
    retry_count,        \* local retry_count
    urls,               \* local urls
    result,             \* how the last call ended: returned list or raised exception
    events,             \* calls made by the running call, in order
    calls               \* number of calls started

\* The state of a BaseScraper and of its running get_latest_articles call.
scraperVars == <<source_id, MIN_SUCCESS_RATE, HAS_PAYWALL, metrics_history,
                 rl_last_request, pc, limit, min_success_rate,
                 raise_on_insufficient, min_rate, attempt, errors, retry_count,
                 urls, result, events, calls>>

\* A RateLimiter of sources/tools.py exercised on its own; times are in
\* seconds.
VARIABLES
    min_interval,       \* RateLimiter.min_interval
    last_request,       \* RateLimiter._last_request: key -> time
    clock,              \* time.time()
    rl_log              \* the wait_if_needed calls made, in order

rateLimiterVars == <<min_interval, last_request, clock, rl_log>>

\* A RetryStrategy of sources/tools.py exercised on its own, and its running
\* execute call; delays are in units of 1/64 second.
VARIABLES
    rs_config,          \* RetryStrategy.config
    rs_fails,           \* func raises on its first rs_fails calls
    rs_pc,              \* position of execute: "loop", "done"
    rs_attempt,         \* execute's local attempt
    rs_delay,           \* execute's local delay
    rs_last_exception,  \* execute's local last_exception: the call that raised it
    rs_calls,           \* number of calls of func made
    rs_sleeps,          \* the arguments of time.sleep, in order
    rs_outcome          \* how execute ended

retryVars == <<rs_config, rs_fails, rs_pc, rs_attempt, rs_delay,
               rs_last_exception, rs_calls, rs_sleeps, rs_outcome>>

\* An ExtractionPipeline of extractors.py and its running extract or
\* extract_all call.
VARIABLES
    extractors,         \* ExtractionPipeline.extractors: names, in order
    ep_mode,            \* the method called: "extract", "extract_all"
    min_quality,        \* extract's argument min_quality
    ep_pc,              \* position of the call: "loop", "break", "done"
    ep_index,           \* position of the for loop in extractors
    best_result,        \* extract's local best_result
    best_score,         \* extract's local best_score
    results,            \* extract_all's local results
    ep_calls,           \* the extractor.extract calls made, in order
    ep_returned         \* what extract returned

pipelineVars == <<extractors, ep_mode, min_quality, ep_pc, ep_index,
                  best_result, best_score, results, ep_calls, ep_returned>>

\* A BeautifulSoupExtractor of extractors.py and its extract call.
VARIABLES
    bs_doc,             \* the parsed html: what each selector finds
    bs_pc,              \* position of the call: "call", "done"
    bs_result           \* what extract returned

soupVars == <<bs_doc, bs_pc, bs_result>>

\* An ExtractedContent of extractors.py that is scored and filled in.
VARIABLES
    qs_content,         \* the ExtractedContent
    qs_scores           \* the quality_score() calls made: content and score

qualityVars == <<qs_content, qs_scores>>

\* A text handed to TextCleaner.clean of sources/tools.py; a text is the
\* sequence of its characters.
VARIABLES
    tc_text,            \* the text
    tc_cleaned          \* clean(text), clean(clean(text)), ...

cleanerVars == <<tc_text, tc_cleaned>>

\* A string handed to DateNormalizer.normalize of sources/tools.py.
VARIABLES
    dn_date_str,        \* the argument date_str, as its tokens
    dn_pc,              \* position of the call: "call", "done"
    dn_result           \* what normalize returned

dateVars == <<dn_date_str, dn_pc, dn_result>>

\* A scrape_urls call of scrape.py.
VARIABLES
    su_urls,            \* the argument urls
    su_max_articles,    \* the argument max_articles
    su_out,             \* the output asked for: "missing", "jsonl", "invalid"
    su_pc,              \* position of the call: "start", "loop", "write", "done"
    selected_urls,      \* the local selected_urls
    su_index,           \* position of the for loop in selected_urls
    su_now,             \* datetime.now(timezone.utc)
    articles,           \* the local articles
    su_outcomes,        \* what happened to each URL processed
    su_result           \* how the call ended

scrapeVars == <<su_urls, su_max_articles, su_out, su_pc, selected_urls,
                su_index, su_now, articles, su_outcomes, su_result>>

\* A page handed to PaywallDetector.detect of sources/tools.py.
VARIABLES
    pd_page,            \* the arguments html and text, by what detect reads
    pd_log              \* the detect calls made: page and returned dict

paywallVars == <<pd_page, pd_log>>

\* A ProxyManager of proxy_manager.py.
VARIABLES
    pm_proxies,         \* self.proxies: working, failures, successes and
                        \* the domain_stats of one domain, per proxy
    current_index,      \* self.current_index
    max_failures,       \* self.max_failures
    pm_marks,           \* mark_failure and mark_success calls made
    pm_last             \* the last call made and what it returned

proxyVars == <<pm_proxies, current_index, max_failures, pm_marks, pm_last>>

\* A PoliteSession of polite.py and the hosts it talks to.
VARIABLES
    ps_settings,        \* self.settings: delay_seconds and respect_robots
    last_request_by_netloc, \* self._last_request_by_netloc
    robots_by_netloc,   \* self._robots_by_netloc
    ps_robots_txt,      \* the robots.txt of each host
    ps_clock,           \* time.time()
    ps_sent,            \* the requests self._session.get has sent
    ps_gets,            \* get calls made
    ps_last             \* the last get call and how it ended

politeVars == <<ps_settings, last_request_by_netloc, robots_by_netloc,
                ps_robots_txt, ps_clock, ps_sent, ps_gets, ps_last>>

\* The tools exercised on their own, outside a scraper.
toolVars == <<rateLimiterVars, retryVars, pipelineVars, soupVars,
    qualityVars,
    cleanerVars,
    dateVars,
    scrapeVars,
    paywallVars,
    proxyVars,
    politeVars>>

vars == <<scraperVars, toolVars>>

\* No RateLimiter is exercised.
RateLimiterOff ==
    /\ min_interval = 0
    /\ last_request = <<>>
    /\ clock = 0
    /\ rl_log = <<>>

\* No RetryStrategy is exercised.
RetryOff ==
    /\ rs_config = <<>>
    /\ rs_fails = 0
    /\ rs_pc = "off"
    /\ rs_attempt = 0
    /\ rs_delay = 0
    /\ rs_last_exception = 0
    /\ rs_calls = 0
    /\ rs_sleeps = <<>>
    /\ rs_outcome = <<>>

\* No ExtractionPipeline is exercised.
PipelineOff ==
    /\ extractors = <<>>
    /\ ep_mode = "off"
    /\ min_quality = <<0, 0>>
    /\ ep_pc = "off"
    /\ ep_index = 0
    /\ best_result = <<>>
    /\ best_score = <<0, 0>>
    /\ results = <<>>
    /\ ep_calls = <<>>
    /\ ep_returned = <<>>

\* No BeautifulSoupExtractor is exercised.
SoupOff ==
    /\ bs_doc = <<>>
    /\ bs_pc = "off"
    /\ bs_result = <<>>

\* No ExtractedContent is scored.
QualityOff ==
    /\ qs_content = <<>>
    /\ qs_scores = <<>>

\* No text is cleaned.
CleanerOff ==
    /\ tc_text = <<>>
    /\ tc_cleaned = <<>>

\* No date is normalized.
DateOff ==
    /\ dn_date_str = <<>>
    /\ dn_pc = "off"
    /\ dn_result = <<>>

\* No scrape_urls call is made.
ScrapeOff ==
    /\ su_urls = <<>>
    /\ su_max_articles = <<>>
    /\ su_out = "off"
    /\ su_pc = "off"
    /\ selected_urls = <<>>
    /\ su_index = 0
    /\ su_now = 0
    /\ articles = <<>>
    /\ su_outcomes = <<>>
    /\ su_result = "off"

\* No page is inspected for a paywall.
PaywallOff ==
    /\ pd_page = <<>>
    /\ pd_log = <<>>

\* No ProxyManager is there.
ProxyOff ==
    /\ pm_proxies = <<>>
    /\ current_index = 0
    /\ max_failures = 0
    /\ pm_marks = 0
    /\ pm_last = <<>>

\* No PoliteSession is there.
PoliteOff ==
    /\ ps_settings = <<>>
    /\ last_request_by_netloc = <<>>
    /\ robots_by_netloc = <<>>
    /\ ps_robots_txt = <<>>
    /\ ps_clock = 0
    /\ ps_sent = {}
    /\ ps_gets = 0
    /\ ps_last = <<>>

ToolsOff == RateLimiterOff /\ RetryOff /\ PipelineOff /\ SoupOff
    /\ QualityOff
    /\ CleanerOff
    /\ DateOff
    /\ ScrapeOff
    /\ PaywallOff
    /\ ProxyOff
    /\ PoliteOff

----------------------------------------------------------------------------
(* Python helpers *)

Min(a, b) == IF a <= b THEN a ELSE b
Max(a, b) == IF a >= b THEN a ELSE b

RECURSIVE Gcd(_, _)
Gcd(a, b) == IF b = 0 THEN a ELSE Gcd(b, a % b)

\* The list of the first n article URLs of a page, sorted.
UrlList(n) == [i \in 1..n |-> i]

\* lst[:n] of Python, n of either sign.
PySliceTo(lst, n) ==
    IF n >= 0 THEN SubSeq(lst, 1, Min(n, Len(lst)))
              ELSE SubSeq(lst, 1, Max(0, Len(lst) + n))

\* An optional float argument: None, or a value in hundredths.
None == [some |-> FALSE, val |-> 0]
Some(v) == [some |-> TRUE, val |-> v]

\* "x or y" of Python for an optional float x: y when x is None or 0.0.
PyOr(x, y) == IF x.some /\ x.val # 0 THEN x.val ELSE y

\* Truth value of a HAS_PAYWALL attribute (False, True or the string "partial").
PyBool(v) == v # "False"

\* a / b of Python for ints, b > 0, as an exact fraction in lowest terms.
PyDiv(a, b) == <<a \div Gcd(a, b), b \div Gcd(a, b)>>

\* r < m for a success rate r and a minimum m in hundredths.
RateBelow(r, m) == r[1] * 100 < m * r[2]

----------------------------------------------------------------------------
(* The sources *)

\* Class attributes of three of the concrete sources, and of the scraper
\* of test_raises_on_insufficient_data (MIN_SUCCESS_RATE set to 0.95).
Sources ==
    { [source_id |-> "yahoofinance",    MIN_SUCCESS_RATE |-> 60, HAS_PAYWALL |-> "False"],
      [source_id |-> "wsj",             MIN_SUCCESS_RATE |-> 20, HAS_PAYWALL |-> "True"],
      [source_id |-> "businessinsider", MIN_SUCCESS_RATE |-> 50, HAS_PAYWALL |-> "partial"],
      [source_id |-> "yahoofinance",    MIN_SUCCESS_RATE |-> 95, HAS_PAYWALL |-> "False"] }

\* Values of the limit argument.
Limits == {-1, 0, 2, 20}

\* Values of the min_success_rate argument.
MinRateArgs == {None, Some(0), Some(30), Some(90), Some(100)}

\* Numbers of article links a page can hold.
FoundCounts == {0, 1, MaxFound}

\* _collect_urls without the final cut to the limit.
collect_urls_uncut(found, lim) == UrlList(found)

\* What _collect_urls of a source returns when the page holds `found`
\* article links: the sorted links cut to the limit.
collect_urls(found, lim) == PySliceTo(UrlList(found), lim)

\* Methods of class RetryStrategy.
RetryStrategyMethods == {"execute"}

----------------------------------------------------------------------------
(* State after BaseScraper.__init__ *)

NoResult == [kind |-> "none", urls |-> <<>>, exc |-> ""]

\* An entry of the log of calls: the callee, its argument or outcome, and
\* the length of the list it returned.
Event(op, arg, n) == [op |-> op, arg |-> arg, n |-> n]

Init ==
    /\ \E s \in Sources :
        /\ source_id = s.source_id
        /\ MIN_SUCCESS_RATE = s.MIN_SUCCESS_RATE
        /\ HAS_PAYWALL = s.HAS_PAYWALL
    /\ metrics_history = <<>>
    /\ rl_last_request = {}
    /\ pc = "idle"
    /\ limit = 20
    /\ min_success_rate = None
    /\ raise_on_insufficient = FALSE
    /\ min_rate = 0
    /\ attempt = 0
    /\ errors = <<>>
    /\ retry_count = 0
    /\ urls = <<>>
    /\ result = NoResult
    /\ events = <<>>
    /\ calls = 0
    /\ ToolsOff

----------------------------------------------------------------------------
(* BaseScraper.get_latest_articles, one action per step of its body *)

\* The call and its first statements: the locals are initialised.
Call(lim, msr, roi) ==
    /\ pc = "idle"
    /\ calls < MaxCalls
    /\ calls' = calls + 1
    /\ limit' = lim
    /\ min_success_rate' = msr
    /\ raise_on_insufficient' = roi
    /\ min_rate' = PyOr(msr, MIN_SUCCESS_RATE)
    /\ errors' = <<>>
    /\ retry_count' = 0
    /\ urls' = <<>>
    /\ attempt' = 0
    /\ events' = <<>>
    /\ result' = NoResult
    /\ pc' = "rate_limit"
    /\ UNCHANGED <<source_id, MIN_SUCCESS_RATE, HAS_PAYWALL, metrics_history,
                   rl_last_request>>
    /\ UNCHANGED toolVars

\* wait_if_needed called without its argument: the key "default".
RateLimitKey_default(sid) == "default"

\* The key get_latest_articles hands to the rate limiter.
RateLimitKey(sid) == sid

\* self.rate_limiter.wait_if_needed(self.source_id): it returns after the
\* wait, with the key's last-request time set.
RateLimit ==
    /\ pc = "rate_limit"
    /\ events' = Append(events, Event("wait_if_needed", RateLimitKey(source_id), 0))
    /\ rl_last_request' = rl_last_request \cup {RateLimitKey(source_id)}
    /\ pc' = IF attempt < MAX_RETRIES THEN "attempt" ELSE "final"
    /\ UNCHANGED <<source_id, MIN_SUCCESS_RATE, HAS_PAYWALL, metrics_history,
                   limit, min_success_rate, raise_on_insufficient, min_rate,
                   attempt, errors, retry_count, urls, result, calls>>
    /\ UNCHANGED toolVars

\* The loop left after every attempt that returns, an empty list included.
LoopBreaks_always(u) == TRUE

\* The loop never left early.
LoopBreaks_never(u) == FALSE

\* "if len(urls) > 0: break"
LoopBreaks(u) == Len(u) > 0

\* One pass of the loop in which _collect_urls returns a list.
AttemptReturns(found) ==
    /\ pc = "attempt"
    /\ attempt < MAX_RETRIES
    /\ LET u == collect_urls(found, limit) IN
        /\ urls' = u
        /\ events' = Append(events, Event("_collect_urls",
                                           IF Len(u) > 0 THEN "urls" ELSE "empty", Len(u)))
        /\ IF LoopBreaks(u)
             THEN /\ pc' = "final"
                  /\ attempt' = attempt
             ELSE /\ attempt' = attempt + 1
                  /\ pc' = IF attempt + 1 < MAX_RETRIES THEN "attempt" ELSE "final"
    /\ UNCHANGED <<source_id, MIN_SUCCESS_RATE, HAS_PAYWALL, metrics_history,
                   rl_last_request, limit, min_success_rate,
                   raise_on_insufficient, min_rate, errors, retry_count,
                   result, calls>>
    /\ UNCHANGED toolVars

\* "if attempt < self.MAX_RETRIES - 1": a backoff follows the failed attempt.
BackoffFollows(a) == a < MAX_RETRIES - 1

\* One pass of the loop in which _collect_urls raises: the except clause.
\* self.retry_strategy.get_delay is looked up on a RetryStrategy; a class
\* without that method makes the lookup raise AttributeError inside the
\* handler, which leaves get_latest_articles.
AttemptRaises ==
    /\ pc = "attempt"
    /\ attempt < MAX_RETRIES
    /\ retry_count' = attempt + 1
    /\ errors' = Append(errors, attempt + 1)
    /\ IF BackoffFollows(attempt)
         THEN IF "get_delay" \in RetryStrategyMethods
                THEN /\ events' = events \o <<Event("_collect_urls", "raise", 0),
                                              Event("sleep", "backoff", 0)>>
                     /\ attempt' = attempt + 1
                     /\ pc' = "attempt"
                     /\ result' = result
                ELSE /\ events' = Append(events, Event("_collect_urls", "raise", 0))
                     /\ attempt' = attempt
                     /\ pc' = "idle"
                     /\ result' = [kind |-> "raise", urls |-> <<>>, exc |-> "AttributeError"]
         ELSE /\ events' = Append(events, Event("_collect_urls", "raise", 0))
              /\ attempt' = attempt + 1
              /\ pc' = IF attempt + 1 < MAX_RETRIES THEN "attempt" ELSE "final"
              /\ result' = result
    /\ UNCHANGED <<source_id, MIN_SUCCESS_RATE, HAS_PAYWALL, metrics_history,
                   rl_last_request, limit, min_success_rate,
                   raise_on_insufficient, min_rate, urls, calls>>
    /\ UNCHANGED toolVars

\* "success_rate = len(urls) / limit if limit > 0 else 0"
SuccessRate(u, lim) == IF lim > 0 THEN PyDiv(Len(u), lim) ELSE <<0, 1>>

\* A record whose retry_count is the number of errors.
BuildMetrics_counted(sid, lim, u, errs, paywall, rc) ==
    [source_id |-> sid,
     requested |-> lim,
     collected |-> Len(u),
     success_rate |-> SuccessRate(u, lim),
     errors |-> errs,
     has_paywall_detected |-> paywall,
     retry_count |-> Len(errs)]

\* A record whose collected field is given the limit.
BuildMetrics_collected(sid, lim, u, errs, paywall, rc) ==
    [source_id |-> sid,
     requested |-> lim,
     collected |-> lim,
     success_rate |-> SuccessRate(u, lim),
     errors |-> errs,
     has_paywall_detected |-> paywall,
     retry_count |-> rc]

\* The ScraperMetrics record of a call (time_seconds, timestamp and
\* category, which no step reads, are left out).
BuildMetrics(sid, lim, u, errs, paywall, rc) ==
    [source_id |-> sid,
     requested |-> lim,
     collected |-> Len(u),
     success_rate |-> SuccessRate(u, lim),
     errors |-> errs,
     has_paywall_detected |-> paywall,
     retry_count |-> rc]

\* After the loop: the success rate is computed and the metrics stored.
Finalize ==
    /\ pc = "final"
    /\ metrics_history' = Append(metrics_history,
            BuildMetrics(source_id, limit, urls, errors, HAS_PAYWALL, retry_count))
    /\ pc' = "validate"
    /\ UNCHANGED <<source_id, MIN_SUCCESS_RATE, HAS_PAYWALL, rl_last_request,
                   limit, min_success_rate, raise_on_insufficient, min_rate,
                   attempt, errors, retry_count, urls, result, events, calls>>
    /\ UNCHANGED toolVars

\* "if success_rate < min_rate"
Insufficient(rate, minimum) == RateBelow(rate, minimum)

\* The two exception types taken for one another.
InsufficiencyException_swapped(paywall) ==
    IF PyBool(paywall) THEN "InsufficientDataException" ELSE "PaywallException"

\* The exception of the strict mode.
InsufficiencyException(paywall) ==
    IF PyBool(paywall) THEN "PaywallException" ELSE "InsufficientDataException"

\* The validation of the success rate, and the return.
Validate ==
    /\ pc = "validate"
    /\ result' = IF /\ Insufficient(SuccessRate(urls, limit), min_rate)
                    /\ raise_on_insufficient
                   THEN [kind |-> "raise", urls |-> <<>>,
                         exc |-> InsufficiencyException(HAS_PAYWALL)]
                   ELSE [kind |-> "return", urls |-> urls, exc |-> ""]
    /\ pc' = "idle"
    /\ UNCHANGED <<source_id, MIN_SUCCESS_RATE, HAS_PAYWALL, metrics_history,
                   rl_last_request, limit, min_success_rate,
                   raise_on_insufficient, min_rate, attempt, errors,
                   retry_count, urls, events, calls>>
    /\ UNCHANGED toolVars

Next ==
    \/ \E lim \in Limits, msr \in MinRateArgs, roi \in BOOLEAN : Call(lim, msr, roi)
    \/ RateLimit
    \/ \E found \in FoundCounts : AttemptReturns(found)
    \/ AttemptRaises
    \/ Finalize
    \/ Validate

Spec == Init /\ [][Next]_vars

----------------------------------------------------------------------------
(* Properties of get_latest_articles *)

Last(seq) == seq[Len(seq)]

\* The call that ran last has ended.
Ended == pc = "idle" /\ result.kind # "none"

\* The running or last call went through the computation of the final
\* success rate: its record is the last of the history.
Recorded ==
    \/ pc = "validate"
    \/ /\ pc = "idle"
       /\ \/ result.kind = "return"
          \/ result.exc \in {"InsufficientDataException", "PaywallException"}

\* Positions in the log of the _collect_urls invocations.
CollectAt(ev) == {i \in DOMAIN ev : ev[i].op = "_collect_urls"}

\* Number of _collect_urls invocations among the first i entries of the log.
CollectsUpTo(ev, i) == Cardinality({j \in CollectAt(ev) : j <= i})

\* C1: every call of get_latest_articles has appended exactly one record to
\* metrics_history when it returns or raises, so that between calls the
\* history holds one record per call made.
C1_OneRecordPerCall ==
    pc = "idle" => Len(metrics_history) = calls

\* C2: a call made with raise_on_insufficient = False never raises; it
\* returns a list.
C2_LenientNeverRaises ==
    (Ended /\ ~raise_on_insufficient) => result.kind = "return"

\* C3: an attempt of _collect_urls that raises while fewer than MAX_RETRIES
\* attempts have been made is followed by a backoff sleep and then by the
\* next attempt: the call does not end there.
C3_ExceptionIsRetried ==
    \A i \in CollectAt(events) :
        (events[i].arg = "raise" /\ CollectsUpTo(events, i) < MAX_RETRIES) =>
            /\ i + 1 <= Len(events)
            /\ events[i + 1].op = "sleep"
            /\ \/ i + 1 = Len(events) /\ pc = "attempt"
               \/ i + 2 <= Len(events) /\ events[i + 2].op = "_collect_urls"

\* C4: within one call _collect_urls is invoked at most MAX_RETRIES times,
\* never again after an attempt that returned a non-empty list, and an
\* attempt that returned an empty list is followed by another attempt
\* whenever attempts remain.
C4_BoundedAttempts ==
    /\ Cardinality(CollectAt(events)) <= MAX_RETRIES
    /\ \A i \in CollectAt(events) :
        /\ events[i].arg = "urls" => \A j \in CollectAt(events) : j <= i
        /\ (events[i].arg = "empty" /\ CollectsUpTo(events, i) < MAX_RETRIES) =>
              \/ i = Len(events) /\ pc = "attempt"
              \/ \E j \in CollectAt(events) : j > i

\* Witness of C4: two empty attempts were each followed by another attempt
\* and the third, non-empty one ended the loop.
C4_Witness ==
    /\ pc = "final"
    /\ Len(events) = 4
    /\ events[2].arg = "empty" /\ events[3].arg = "empty" /\ events[4].arg = "urls"

\* C5: InsufficientDataException and PaywallException are raised only in a
\* call with raise_on_insufficient = True whose final success rate is below
\* the minimum in force (min_rate); such a call raises PaywallException when
\* the source's HAS_PAYWALL is set and InsufficientDataException otherwise.
C5_TypedInsufficiency ==
    LET m == Last(metrics_history)
        below == m.success_rate[1] * 100 < min_rate * m.success_rate[2]
    IN  /\ result.exc \in {"InsufficientDataException", "PaywallException"} =>
            raise_on_insufficient /\ below
        /\ (Ended /\ Recorded /\ raise_on_insufficient /\ below) =>
            /\ result.kind = "raise"
            /\ result.exc = IF HAS_PAYWALL \in {"True", "partial"}
                              THEN "PaywallException"
                              ELSE "InsufficientDataException"

\* Witness of C5: a source with a partial paywall raised PaywallException.
C5_Witness ==
    /\ pc = "idle"
    /\ HAS_PAYWALL = "partial"
    /\ raise_on_insufficient
    /\ result.exc = "PaywallException"

\* An attempt that returned n URLs is below the minimum in force.
AttemptBelowMinimum(n) ==
    IF limit > 0 THEN n * 100 < min_rate * limit ELSE 0 < min_rate

\* Every attempt of the call returned a non-empty list below the minimum.
OnlyInsufficientLists ==
    /\ CollectAt(events) # {}
    /\ \A i \in CollectAt(events) :
        events[i].arg = "urls" /\ AttemptBelowMinimum(events[i].n)

\* C6, as claimed: when every attempt returns a non-empty list below the
\* minimum success rate, MAX_RETRIES attempts are made before the final
\* success rate is computed (0.5 for 10 URLs of limit = 20).
C6_RetriesInsufficientLists ==
    (Recorded /\ OnlyInsufficientLists) =>
        /\ Cardinality(CollectAt(events)) = MAX_RETRIES
        /\ (limit = 20 /\ Len(urls) = 10) =>
              Last(metrics_history).success_rate = <<1, 2>>

\* C6, amended: when the first attempt returns a non-empty list below the
\* minimum success rate, that attempt is the only one made before the final
\* success rate is computed (0.5 for 10 URLs of limit = 20).
C6_SingleAttemptOnInsufficientList ==
    (Recorded /\ OnlyInsufficientLists) =>
        /\ Cardinality(CollectAt(events)) = 1
        /\ (limit = 20 /\ Len(urls) = 10) =>
              Last(metrics_history).success_rate = <<1, 2>>

\* Witness of C6: the scenario of the claim, 10 URLs for limit = 20 and
\* min_success_rate = 0.9, after the final rate was computed.
C6_Witness ==
    /\ Recorded
    /\ OnlyInsufficientLists
    /\ limit = 20
    /\ min_success_rate = Some(90)
    /\ Len(urls) = 10
    /\ Last(metrics_history).success_rate = <<1, 2>>

\* C7: the record appended by a call has requested equal to the limit
\* argument, collected equal to the length of the list the call returns and
\* success_rate equal to collected / requested, or 0 when limit is not
\* positive.
C7_RecordMatchesCall ==
    Recorded =>
        LET m == Last(metrics_history) IN
        /\ m.requested = limit
        /\ m.collected = Len(urls)
        /\ result.kind = "return" => m.collected = Len(result.urls)
        /\ limit > 0 =>
              /\ m.success_rate[2] > 0
              /\ m.success_rate[1] * m.requested = m.collected * m.success_rate[2]
        /\ limit <= 0 => m.success_rate = <<0, 1>>

\* Witness of C7: a call returned 1 URL of 2 requested.
C7_Witness ==
    /\ Ended
    /\ result.kind = "return"
    /\ Len(result.urls) = 1
    /\ limit = 2
    /\ Last(metrics_history).success_rate = <<1, 2>>

\* C8: every record of the history has 0 <= success_rate <= 1.
C8_RateWithinUnitInterval ==
    \A i \in DOMAIN metrics_history :
        LET r == metrics_history[i].success_rate IN
        /\ r[2] > 0
        /\ 0 <= r[1]
        /\ r[1] <= r[2]

\* Witness of C8: a page with more links than the limit gave a record with
\* success_rate 1, and a call with a negative limit gave one with rate 0
\* for a non-empty list.
C8_Witness ==
    /\ \E i \in DOMAIN metrics_history :
        /\ metrics_history[i].requested = 2
        /\ metrics_history[i].success_rate = <<1, 1>>
    /\ \E i \in DOMAIN metrics_history :
        /\ metrics_history[i].requested < 0
        /\ metrics_history[i].collected > 0
        /\ metrics_history[i].success_rate = <<0, 1>>

\* C9: when the caller passes min_success_rate, the insufficiency check
\* compares the success rate against the passed value: min_rate is that
\* value, and a strict call raises exactly when its success rate is below it.
C9_PassedMinimumIsUsed ==
    /\ (min_success_rate.some /\ calls > 0) => min_rate = min_success_rate.val
    /\ (Ended /\ Recorded /\ min_success_rate.some /\ raise_on_insufficient) =>
        LET r == Last(metrics_history).success_rate IN
        result.kind = "raise" <=> r[1] * 100 < min_success_rate.val * r[2]

\* C10: each call invokes the rate limiter exactly once, with the scraper's
\* source_id as key, before the first _collect_urls attempt, and not again
\* between the retries.
C10_RateLimitedOnce ==
    calls > 0 =>
        IF pc = "rate_limit"
          THEN events = <<>>
          ELSE /\ Len(events) >= 1
               /\ events[1] = Event("wait_if_needed", source_id, 0)
               /\ \A i \in 2..Len(events) : events[i].op # "wait_if_needed"

\* Witness of C10: a call that made MAX_RETRIES attempts has returned.
C10_Witness ==
    /\ Ended
    /\ result.kind = "return"
    /\ Cardinality(CollectAt(events)) = MAX_RETRIES
    /\ Len(events) = 1 + MAX_RETRIES

----------------------------------------------------------------------------
(* RateLimiter (sources/tools.py), exercised on its own.                    *)
(* The statements of wait_if_needed take no time: time passes in            *)
(* time.sleep and between the calls.                                        *)

\* Last instant of the clock.
MaxTime == 5

\* Number of wait_if_needed calls made in one behaviour.
MaxWaits == 3

\* No scraper is running.
ScraperOff ==
    /\ source_id = "yahoofinance"
    /\ MIN_SUCCESS_RATE = 60
    /\ HAS_PAYWALL = "False"
    /\ metrics_history = <<>>
    /\ rl_last_request = {}
    /\ pc = "idle"
    /\ limit = 20
    /\ min_success_rate = None
    /\ raise_on_insufficient = FALSE
    /\ min_rate = 0
    /\ attempt = 0
    /\ errors = <<>>
    /\ retry_count = 0
    /\ urls = <<>>
    /\ result = NoResult
    /\ events = <<>>
    /\ calls = 0

\* Values of requests_per_second, as fractions <<n, d>> of n requests in d
\* seconds: 0, 1.0 (the default), 0.5 (BaseScraper) and 1/3.
RequestRates == {<<0, 1>>, <<1, 1>>, <<1, 2>>, <<1, 3>>}

\* Keys handed to wait_if_needed.
Keys == {"A", "B"}

\* Time by which time.sleep may return late.
Overshoots == {0, 1}

\* "1.0 / requests_per_second if requests_per_second > 0 else 0"
MinInterval(rps) == IF rps[1] > 0 THEN rps[2] \div rps[1] ELSE 0

\* d[k] = v of a Python dict.
DictSet(d, k, v) == [x \in DOMAIN d \cup {k} |-> IF x = k THEN v ELSE d[x]]

\* Every call uses the one entry "default".
RLKey_shared(key) == "default"

\* The entry of _last_request a call with `key` reads and writes.
RLKey(key) == key

\* "if key in self._last_request" and "if elapsed < self.min_interval"
NeedsWait(d, k, now, mi) == k \in DOMAIN d /\ now - d[k] < mi

\* "wait_time = self.min_interval - elapsed"
WaitTime(d, k, now, mi) == mi - (now - d[k])

\* The time read before the sleep stored after it.
StampAfterSleep_stale(now, woke) == now

\* "self._last_request[key] = time.time()" after the sleep.
StampAfterSleep(now, woke) == woke

\* An entry of rl_log: the key, the time read on entry, the wait returned,
\* the instant of the return and _last_request before and after the call.
WaitRecord(key, now, waited, ret, before, after) ==
    [key |-> key, now |-> now, waited |-> waited, ret |-> ret,
     before |-> before, after |-> after]

\* What a RateLimiter on its own leaves alone.
besideRateLimiter == <<scraperVars, retryVars, pipelineVars, soupVars,
    qualityVars,
    cleanerVars,
    dateVars,
    scrapeVars,
    paywallVars,
    proxyVars,
    politeVars>>

RateLimiterInit ==
    /\ ScraperOff /\ RetryOff /\ PipelineOff /\ SoupOff
        /\ QualityOff
        /\ CleanerOff
        /\ DateOff
        /\ ScrapeOff
        /\ PaywallOff
        /\ ProxyOff
        /\ PoliteOff
    /\ \E rps \in RequestRates : min_interval = MinInterval(rps)
    /\ last_request = <<>>
    /\ clock = 0
    /\ rl_log = <<>>

\* Time passes between two calls.
Tick ==
    /\ clock < MaxTime
    /\ clock' = clock + 1
    /\ UNCHANGED <<min_interval, last_request, rl_log, besideRateLimiter>>

\* RateLimiter.wait_if_needed(key); the sleep returns `over` late.
WaitIfNeeded(key, over) ==
    /\ Len(rl_log) < MaxWaits
    /\ LET k == RLKey(key)
           now == clock
       IN IF NeedsWait(last_request, k, now, min_interval)
            THEN LET wait_time == WaitTime(last_request, k, now, min_interval)
                     woke == now + wait_time + over
                 IN /\ woke <= MaxTime
                    /\ clock' = woke
                    /\ last_request' = DictSet(last_request, k, StampAfterSleep(now, woke))
                    /\ rl_log' = Append(rl_log, WaitRecord(key, now, wait_time, woke,
                                                           last_request, last_request'))
            ELSE /\ over = 0
                 /\ clock' = clock
                 /\ last_request' = DictSet(last_request, k, now)
                 /\ rl_log' = Append(rl_log, WaitRecord(key, now, 0, now,
                                                        last_request, last_request'))
    /\ UNCHANGED <<min_interval, besideRateLimiter>>

RateLimiterNext ==
    \/ Tick
    \/ \E key \in Keys, over \in Overshoots : WaitIfNeeded(key, over)

SpecRateLimiter == RateLimiterInit /\ [][RateLimiterNext]_vars

(* Properties of RateLimiter *)

\* Position of the call with log[j]'s key that precedes call j, 0 if none.
PrevSameKey(log, j) ==
    LET same == {i \in 1..(j - 1) : log[i].key = log[j].key}
    IN IF same = {} THEN 0 ELSE CHOOSE i \in same : \A h \in same : h <= i

\* C11: two consecutive calls of wait_if_needed with the same key return at
\* instants at least min_interval apart.
C11_MinimumGap ==
    \A j \in DOMAIN rl_log :
        LET i == PrevSameKey(rl_log, j) IN
        i # 0 => rl_log[j].ret - rl_log[i].ret >= min_interval

\* Witness of C11: a second call with the key came less than min_interval
\* after the first and was made to wait.
C11_Witness ==
    \E j \in DOMAIN rl_log :
        LET i == PrevSameKey(rl_log, j) IN
        /\ i # 0
        /\ rl_log[j].now - rl_log[i].ret < min_interval
        /\ rl_log[j].waited > 0
        /\ rl_log[j].ret - rl_log[i].ret >= min_interval

\* C12: wait_if_needed(k) leaves the last-call times of all other keys as
\* they were and writes the one of k, and the time it waits is decided by
\* the earlier calls with k alone: by the time the last of them stored.
C12_KeysIndependent ==
    \A j \in DOMAIN rl_log :
        LET e == rl_log[j]
            i == PrevSameKey(rl_log, j)
        IN /\ DOMAIN e.after = DOMAIN e.before \cup {e.key}
           /\ \A k \in DOMAIN e.before \ {e.key} : e.after[k] = e.before[k]
           /\ e.waited = IF i # 0 /\ e.now - rl_log[i].after[e.key] < min_interval
                           THEN min_interval - (e.now - rl_log[i].after[e.key])
                           ELSE 0

\* Witness of C12: between two calls with key A, of which the second
\* waited, a call with key B was made and did not wait.
C12_Witness ==
    /\ Len(rl_log) = 3
    /\ rl_log[1].key = "A" /\ rl_log[2].key = "B" /\ rl_log[3].key = "A"
    /\ rl_log[2].waited = 0
    /\ rl_log[3].waited > 0
    /\ rl_log[3].after["B"] = rl_log[2].after["B"]

----------------------------------------------------------------------------
(* RetryStrategy (sources/tools.py), exercised on its own.                  *)
(* A delay is a float of seconds and is kept as its number of 1/64          *)
(* seconds, which the factors and bases below multiply exactly.             *)

\* Largest max_attempts of a RetryConfig.
MaxAttempts == 4

\* One second of delay.
Second == 64

\* x * f for a fraction f = <<n, d>>.
Times(x, f) == (x * f[1]) \div f[2]

\* Values of RetryConfig.initial_delay: 1.0 (the default) and 2.0
\* (BaseScraper.RETRY_DELAY).
InitialDelays == {Second, 2 * Second}

\* Values of RetryConfig.max_delay: 3.0 and 60.0 (the default).
MaxDelays == {3 * Second, 60 * Second}

\* Values of RetryConfig.exponential_base: 0.5, 1.0 and 2.0 (the default).
ExponentialBases == {<<1, 2>>, <<1, 1>>, <<2, 1>>}

\* Values random.uniform(0.5, 1.5) returns.
JitterFactors == {<<1, 2>>, <<1, 1>>, <<3, 2>>}

RetryConfig ==
    [max_attempts : 0..MaxAttempts, initial_delay : InitialDelays,
     max_delay : MaxDelays, exponential_base : ExponentialBases,
     jitter : BOOLEAN]

\* How an execute call stands or ended: running, returned val, raised the
\* exception of func's call number exc, or raised a TypeError.
Outcome(kind, exc, val) == [kind |-> kind, exc |-> exc, val |-> val]

\* func raises on its first `fails` calls and returns "value" afterwards.
FuncRaises(call, fails) == call <= fails

\* The check made one attempt too late.
IsFinalAttempt_late(a, config) == a = config.max_attempts + 1

\* "if attempt == self.config.max_attempts"
IsFinalAttempt(a, config) == a = config.max_attempts

\* The delay slept, with jitter_factor drawn when config.jitter is set.
ActualDelay(d, jitter_factor, config) ==
    IF config.jitter THEN Min(Times(d, jitter_factor), config.max_delay)
                     ELSE Min(d, config.max_delay)

\* The delay halved after each attempt.
NextDelay_halved(d, config) == d \div 2

\* "delay *= self.config.exponential_base"
NextDelay(d, config) == Times(d, config.exponential_base)

\* What a RetryStrategy on its own leaves alone.
besideRetry == <<scraperVars, rateLimiterVars, pipelineVars, soupVars,
    qualityVars,
    cleanerVars,
    dateVars,
    scrapeVars,
    paywallVars,
    proxyVars,
    politeVars>>

\* RetryStrategy(config) and the entry of execute(func).
RetryInit ==
    /\ ScraperOff /\ RateLimiterOff /\ PipelineOff /\ SoupOff
        /\ QualityOff
        /\ CleanerOff
        /\ DateOff
        /\ ScrapeOff
        /\ PaywallOff
        /\ ProxyOff
        /\ PoliteOff
    /\ rs_config \in RetryConfig
    /\ rs_fails \in 0..MaxAttempts
    /\ rs_pc = "loop"
    /\ rs_attempt = 1
    /\ rs_delay = rs_config.initial_delay
    /\ rs_last_exception = 0
    /\ rs_calls = 0
    /\ rs_sleeps = <<>>
    /\ rs_outcome = Outcome("running", 0, "")

\* An attempt in which func returns: "return func(*args, **kwargs)".
AttemptSucceeds ==
    /\ rs_pc = "loop"
    /\ rs_attempt <= rs_config.max_attempts
    /\ ~FuncRaises(rs_calls + 1, rs_fails)
    /\ rs_calls' = rs_calls + 1
    /\ rs_outcome' = Outcome("return", 0, "value")
    /\ rs_pc' = "done"
    /\ UNCHANGED <<rs_config, rs_fails, rs_attempt, rs_delay,
                   rs_last_exception, rs_sleeps, besideRetry>>

\* An attempt in which func raises and which is the final one: "raise".
AttemptFailsFinal ==
    /\ rs_pc = "loop"
    /\ rs_attempt <= rs_config.max_attempts
    /\ FuncRaises(rs_calls + 1, rs_fails)
    /\ IsFinalAttempt(rs_attempt, rs_config)
    /\ rs_calls' = rs_calls + 1
    /\ rs_last_exception' = rs_calls + 1
    /\ rs_outcome' = Outcome("raise", rs_calls + 1, "")
    /\ rs_pc' = "done"
    /\ UNCHANGED <<rs_config, rs_fails, rs_attempt, rs_delay, rs_sleeps,
                   besideRetry>>

\* An attempt in which func raises and which is followed by a sleep.
AttemptFailsBackoff(jitter_factor) ==
    /\ rs_pc = "loop"
    /\ rs_attempt <= rs_config.max_attempts
    /\ FuncRaises(rs_calls + 1, rs_fails)
    /\ ~IsFinalAttempt(rs_attempt, rs_config)
    /\ ~rs_config.jitter => jitter_factor = <<1, 1>>
    /\ rs_calls' = rs_calls + 1
    /\ rs_last_exception' = rs_calls + 1
    /\ rs_sleeps' = Append(rs_sleeps, ActualDelay(rs_delay, jitter_factor, rs_config))
    /\ rs_delay' = NextDelay(rs_delay, rs_config)
    /\ rs_attempt' = rs_attempt + 1
    /\ UNCHANGED <<rs_config, rs_fails, rs_pc, rs_outcome, besideRetry>>

\* The loop ran out of attempts: "raise last_exception", a TypeError when
\* last_exception is None.
LoopExhausted ==
    /\ rs_pc = "loop"
    /\ rs_attempt > rs_config.max_attempts
    /\ rs_outcome' = IF rs_last_exception = 0
                       THEN Outcome("TypeError", 0, "")
                       ELSE Outcome("raise", rs_last_exception, "")
    /\ rs_pc' = "done"
    /\ UNCHANGED <<rs_config, rs_fails, rs_attempt, rs_delay,
                   rs_last_exception, rs_calls, rs_sleeps, besideRetry>>

RetryNext ==
    \/ AttemptSucceeds
    \/ AttemptFailsFinal
    \/ \E jitter_factor \in JitterFactors : AttemptFailsBackoff(jitter_factor)
    \/ LoopExhausted

SpecRetry == RetryInit /\ [][RetryNext]_vars

(* Properties of RetryStrategy *)

\* execute returned after func failed exactly k < max_attempts times.
SucceededAfterFailures ==
    /\ rs_pc = "done"
    /\ rs_fails < rs_config.max_attempts
    /\ rs_calls = rs_fails + 1

NonDecreasing(seq) == \A i, j \in DOMAIN seq : i < j => seq[i] <= seq[j]

\* C13 as stated: after k < max_attempts failures and a success, execute
\* returns the success value and has slept exactly k times, for delays that
\* never decrease.
C13_DelaysNeverDecrease ==
    SucceededAfterFailures =>
        /\ rs_outcome = Outcome("return", 0, "value")
        /\ Len(rs_sleeps) = rs_fails
        /\ NonDecreasing(rs_sleeps)

\* A base of at least 1.
BaseAtLeastOne(config) == config.exponential_base[1] >= config.exponential_base[2]

\* C13, amended: after k < max_attempts failures and a success, execute
\* returns the success value and has slept exactly k times, each time for
\* at most max_delay; the delays never decrease when jitter is off and
\* exponential_base is at least 1.
C13_DelaysNeverDecreaseWithoutJitter ==
    SucceededAfterFailures =>
        /\ rs_outcome = Outcome("return", 0, "value")
        /\ Len(rs_sleeps) = rs_fails
        /\ \A i \in DOMAIN rs_sleeps : rs_sleeps[i] <= rs_config.max_delay
        /\ (~rs_config.jitter /\ BaseAtLeastOne(rs_config))
               => NonDecreasing(rs_sleeps)

\* Witness of C13: without jitter, func failed three times and then
\* succeeded; the delays grew and the third was cut to max_delay.
C13_Witness ==
    /\ SucceededAfterFailures
    /\ rs_outcome.kind = "return"
    /\ ~rs_config.jitter
    /\ Len(rs_sleeps) = 3
    /\ rs_sleeps[1] < rs_sleeps[2]
    /\ rs_sleeps[2] < rs_sleeps[3]
    /\ rs_sleeps[3] = rs_config.max_delay
    /\ rs_delay > rs_config.max_delay

\* C14: when func raises on every one of the max_attempts >= 1 attempts,
\* execute calls it max_attempts times, sleeps max_attempts - 1 times and
\* raises the exception of the final attempt.
C14_RaisesFinalException ==
    (rs_pc = "done" /\ rs_config.max_attempts >= 1
                    /\ rs_fails >= rs_config.max_attempts) =>
        /\ rs_calls = rs_config.max_attempts
        /\ Len(rs_sleeps) = rs_config.max_attempts - 1
        /\ rs_outcome = Outcome("raise", rs_config.max_attempts, "")

\* Witness of C14: three attempts, all failed; two sleeps, and the third
\* call's exception is raised.
C14_Witness ==
    /\ rs_pc = "done"
    /\ rs_config.max_attempts = 3
    /\ rs_fails >= 3
    /\ rs_calls = 3
    /\ Len(rs_sleeps) = 2
    /\ rs_outcome = Outcome("raise", 3, "")

----------------------------------------------------------------------------
(* ExtractionPipeline (extractors.py).                                      *)
(* An ExtractedContent is kept by what is_valid and quality_score read of   *)
(* it: the class of its title ("none", "blank", "short" for 1 to 10         *)
(* characters after strip, "long"), the class of its text ("none", "short"  *)
(* below 100 characters after strip, "medium" for 100 to 499, "long") and   *)
(* whether date, authors, description and image are filled.                 *)
(* A score is a Python float and is kept as the pair <<h, u>>: the float    *)
(* lies u units in the last place from the float of the decimal h/100.      *)
(* Floats compare as these pairs compare, first by h and then by u.         *)

\* The sums of quality_score that round one unit in the last place up:
\* <<h, u, a>> stands for <<h, u>> + a/100.
RoundsUp == {<<10, 0, 5>>, <<20, 0, 10>>, <<30, 1, 5>>, <<55, 0, 5>>, <<65, 0, 5>>}

\* The sums of quality_score that round one unit in the last place down.
RoundsDown == {<<35, 0, 5>>, <<70, 0, 10>>, <<80, -1, 10>>}

\* The float sum s + a/100.
FAdd(s, a) ==
    <<s[1] + a, IF <<s[1], s[2], a>> \in RoundsUp THEN 1
                ELSE IF <<s[1], s[2], a>> \in RoundsDown THEN -1
                ELSE 0>>

\* x >= y and x > y of floats.
FGe(x, y) == x[1] > y[1] \/ (x[1] = y[1] /\ x[2] >= y[2])
FGt(x, y) == x[1] > y[1] \/ (x[1] = y[1] /\ x[2] > y[2])

\* min(x, y) of floats.
FMin(x, y) == IF FGe(y, x) THEN x ELSE y

ExtractedContent(title, text, date, authors, description, image) ==
    [title |-> title, text |-> text, date |-> date, authors |-> authors,
     description |-> description, image |-> image,
     extractor |-> "", confidence |-> <<0, 0>>]

\* ExtractedContent.is_valid()
is_valid(c) ==
    /\ c.title \in {"short", "long"}
    /\ c.text \in {"medium", "long"}

\* A score in which an image displaces the date.
quality_score_exclusive(c) ==
    IF c.image THEN <<5, 0>> ELSE IF c.date THEN <<10, 0>> ELSE <<0, 0>>

\* ExtractedContent.quality_score()
quality_score(c) ==
    LET s0 == <<0, 0>>
        s1 == IF c.title = "long" THEN FAdd(s0, 30) ELSE s0
        s2 == IF c.text = "long" THEN FAdd(s1, 40)
              ELSE IF c.text = "medium" THEN FAdd(s1, 20) ELSE s1
        s3 == IF c.date THEN FAdd(s2, 10) ELSE s2
        s4 == IF c.authors THEN FAdd(s3, 10) ELSE s3
        s5 == IF c.description THEN FAdd(s4, 5) ELSE s4
        s6 == IF c.image THEN FAdd(s5, 5) ELSE s5
    IN FMin(s6, <<100, 0>>)

\* Optional[ExtractedContent]
NoContent == [some |-> FALSE,
              val |-> ExtractedContent("none", "none", FALSE, FALSE, FALSE, FALSE)]
SomeContent(c) == [some |-> TRUE, val |-> c]

\* The default list with newspaper3k ahead of trafilatura.
DefaultExtractors_swapped ==
    <<"custom_selector", "newspaper3k", "trafilatura", "readability",
      "beautifulsoup">>

\* The default list of ExtractionPipeline.__init__, in its order.
DefaultExtractors ==
    <<"custom_selector", "trafilatura", "newspaper3k", "readability",
      "beautifulsoup">>

\* "[e for e in extractors if e.is_available()]"
Available(list, available) == SelectSeq(list, LAMBDA e : e \in available)

\* Values of min_quality: 0.3 (the default), 0.8 and 0.9.
MinQualities == {<<30, 0>>, <<80, 0>>, <<90, 0>>}

\* What an extractor makes of a document: a content that is not valid (no
\* title) and valid contents of score 0.2, 0.3 + 0.4 + 0.1,
\* 0.3 + 0.4 + 0.05 + 0.05 and 1.0.
Contents ==
    {ExtractedContent("none", "long", TRUE, TRUE, TRUE, TRUE),
     ExtractedContent("short", "medium", FALSE, FALSE, FALSE, FALSE),
     ExtractedContent("long", "long", TRUE, FALSE, FALSE, FALSE),
     ExtractedContent("long", "long", FALSE, FALSE, TRUE, TRUE),
     ExtractedContent("long", "long", TRUE, TRUE, TRUE, TRUE)}

\* What extractor.extract(html, url) does: raises, returns None or returns
\* a content.
Outcomes ==
    {[kind |-> "raise", result |-> NoContent],
     [kind |-> "none", result |-> NoContent]}
    \cup {[kind |-> "content", result |-> SomeContent(c)] : c \in Contents}

\* The outcome as extractor e produces it: "extractor=self.name".
By(e, outcome) ==
    IF outcome.kind = "content"
      THEN [outcome EXCEPT !.result.val.extractor = e]
      ELSE outcome

\* "if result and result.is_valid()"
Usable(outcome) == outcome.kind = "content" /\ is_valid(outcome.result.val)

\* "result.confidence = score"
Scored(c) == [c EXCEPT !.confidence = quality_score(c)]

\* An entry of ep_calls: the extractor called and what came of the call,
\* a usable content with its confidence set.
CallRecord(e, outcome) ==
    [extractor |-> e, kind |-> outcome.kind,
     result |-> IF Usable(outcome) THEN SomeContent(Scored(outcome.result.val))
                ELSE outcome.result]

\* No score ends the loop.
HighQuality_never(score) == FALSE

\* "if score >= 0.8"
HighQuality(score) == FGe(score, <<80, 0>>)

\* A failed extractor ends the loop.
NextIndex_abort(i, usable, n) == IF usable THEN i + 1 ELSE n + 1

\* The for loop moves on, after a usable result and after "continue".
NextIndex(i, usable, n) == i + 1

\* Any best result is returned.
MeetsMinimum_any(best, score, minimum) == best.some

\* "if best_result and best_score >= min_quality"
MeetsMinimum(best, score, minimum) == best.some /\ FGe(score, minimum)

\* A result of the same score replaces the best one.
Improves_onTie(score, best) == FGe(score, best)

\* "if score > best_score"
Improves(score, best) == FGt(score, best)

RECURSIVE SortAscending(_)
\* The results sorted by rising confidence.
SortAscending(seq) ==
    IF seq = <<>> THEN <<>>
    ELSE LET x == seq[Len(seq)]
             rest == SortAscending(SubSeq(seq, 1, Len(seq) - 1))
             before == SelectSeq(rest, LAMBDA r : ~FGt(r.confidence, x.confidence))
             after == SelectSeq(rest, LAMBDA r : FGt(r.confidence, x.confidence))
         IN before \o <<x>> \o after

RECURSIVE SortByConfidence(_)
\* "results.sort(key=lambda x: x.confidence, reverse=True)": a stable sort,
\* results of equal confidence keep their order.
SortByConfidence(seq) ==
    IF seq = <<>> THEN <<>>
    ELSE LET x == seq[Len(seq)]
             rest == SortByConfidence(SubSeq(seq, 1, Len(seq) - 1))
             before == SelectSeq(rest, LAMBDA r : FGe(r.confidence, x.confidence))
             after == SelectSeq(rest, LAMBDA r : ~FGe(r.confidence, x.confidence))
         IN before \o <<x>> \o after

\* What an ExtractionPipeline on its own leaves alone.
besidePipeline == <<scraperVars, rateLimiterVars, retryVars, soupVars,
    qualityVars,
    cleanerVars,
    dateVars,
    scrapeVars,
    paywallVars,
    proxyVars,
    politeVars>>

\* ExtractionPipeline() with some of the libraries installed, and the entry
\* of extract(html, url, min_quality) or of extract_all(html, url).
PipelineInit ==
    /\ ScraperOff /\ RateLimiterOff /\ RetryOff /\ SoupOff
        /\ QualityOff
        /\ CleanerOff
        /\ DateOff
        /\ ScrapeOff
        /\ PaywallOff
        /\ ProxyOff
        /\ PoliteOff
    /\ \E available \in SUBSET {DefaultExtractors[i] : i \in DOMAIN DefaultExtractors} :
           extractors = Available(DefaultExtractors, available)
    /\ \/ ep_mode = "extract" /\ min_quality \in MinQualities
       \/ ep_mode = "extract_all" /\ min_quality = <<30, 0>>
    /\ ep_pc = "loop"
    /\ ep_index = 1
    /\ best_result = NoContent
    /\ best_score = <<0, 0>>
    /\ results = <<>>
    /\ ep_calls = <<>>
    /\ ep_returned = NoContent

\* One pass of the loop of extract.
ExtractTry(outcome) ==
    /\ ep_mode = "extract"
    /\ ep_pc = "loop"
    /\ ep_index <= Len(extractors)
    /\ LET e == extractors[ep_index]
           call == CallRecord(e, By(e, outcome))
           usable == Usable(outcome)
           score == call.result.val.confidence
       IN /\ ep_calls' = Append(ep_calls, call)
          /\ IF usable /\ Improves(score, best_score)
               THEN best_score' = score /\ best_result' = call.result
               ELSE UNCHANGED <<best_score, best_result>>
          /\ IF usable /\ HighQuality(score)
               THEN ep_pc' = "break" /\ UNCHANGED ep_index
               ELSE /\ ep_index' = NextIndex(ep_index, usable, Len(extractors))
                    /\ UNCHANGED ep_pc
    /\ UNCHANGED <<extractors, ep_mode, min_quality, results, ep_returned,
                   besidePipeline>>

\* The end of extract, after the loop.
ExtractReturn ==
    /\ ep_mode = "extract"
    /\ ep_pc = "break" \/ (ep_pc = "loop" /\ ep_index > Len(extractors))
    /\ ep_returned' = IF MeetsMinimum(best_result, best_score, min_quality)
                        THEN best_result ELSE NoContent
    /\ ep_pc' = "done"
    /\ UNCHANGED <<extractors, ep_mode, min_quality, ep_index, best_result,
                   best_score, results, ep_calls, besidePipeline>>

\* One pass of the loop of extract_all.
ExtractAllTry(outcome) ==
    /\ ep_mode = "extract_all"
    /\ ep_pc = "loop"
    /\ ep_index <= Len(extractors)
    /\ LET e == extractors[ep_index]
           call == CallRecord(e, By(e, outcome))
           usable == Usable(outcome)
       IN /\ ep_calls' = Append(ep_calls, call)
          /\ results' = IF usable THEN Append(results, call.result.val) ELSE results
          /\ ep_index' = NextIndex(ep_index, usable, Len(extractors))
    /\ UNCHANGED <<extractors, ep_mode, min_quality, ep_pc, best_result,
                   best_score, ep_returned, besidePipeline>>

\* The end of extract_all, after the loop: results is sorted and returned.
ExtractAllReturn ==
    /\ ep_mode = "extract_all"
    /\ ep_pc = "loop"
    /\ ep_index > Len(extractors)
    /\ results' = SortByConfidence(results)
    /\ ep_pc' = "done"
    /\ UNCHANGED <<extractors, ep_mode, min_quality, ep_index, best_result,
                   best_score, ep_calls, ep_returned, besidePipeline>>

PipelineNext ==
    \/ \E outcome \in Outcomes : ExtractTry(outcome)
    \/ ExtractReturn
    \/ \E outcome \in Outcomes : ExtractAllTry(outcome)
    \/ ExtractAllReturn

SpecPipeline == PipelineInit /\ [][PipelineNext]_vars

(* Properties of ExtractionPipeline *)

\* The call left a valid content; the call failed (raised or returned None).
CallUsable(call) == call.kind = "content" /\ is_valid(call.result.val)
CallFailed(call) == call.kind \in {"raise", "none"}

\* The call left a valid content of score 0.8 or more.
CallHigh(call) == CallUsable(call) /\ FGe(call.result.val.confidence, <<80, 0>>)

ExtractDone == ep_mode = "extract" /\ ep_pc = "done"
ExtractAllDone == ep_mode = "extract_all" /\ ep_pc = "done"

\* The extractors are called in the order of the list, each at most once.
CalledInOrder ==
    /\ Len(ep_calls) <= Len(extractors)
    /\ \A i \in DOMAIN ep_calls : ep_calls[i].extractor = extractors[i]

\* C15: what extract returns is None or a valid content whose
\* quality_score() is at least min_quality.
C15_ReturnMeetsMinimum ==
    (ExtractDone /\ ep_returned.some) =>
        /\ is_valid(ep_returned.val)
        /\ FGe(quality_score(ep_returned.val), min_quality)

\* Witness of C15: with min_quality 0.8, an extractor left a valid content of
\* score 0.3 + 0.4 + 0.1 = 0.7999999999999999 and extract returned another
\* content, of score 0.8 or more.
C15_Witness ==
    /\ ExtractDone
    /\ min_quality = <<80, 0>>
    /\ \E i \in DOMAIN ep_calls :
           /\ CallUsable(ep_calls[i])
           /\ ep_calls[i].result.val.confidence = <<80, -1>>
           /\ ep_calls[i].result # ep_returned
    /\ ep_returned.some
    /\ FGe(quality_score(ep_returned.val), <<80, 0>>)

\* C16 as stated: a valid result of score 0.8 or more is the last call
\* extract makes, and extract returns it.
C16_HighQualityIsReturned ==
    ep_mode = "extract" =>
        \A i \in DOMAIN ep_calls : CallHigh(ep_calls[i]) =>
            /\ i = Len(ep_calls)
            /\ ep_pc = "done" => ep_returned = ep_calls[i].result

\* C16, amended: a valid result of score 0.8 or more is the last call
\* extract makes; extract returns it when its score is at least min_quality
\* and None otherwise.
C16_HighQualityEndsLoop ==
    ep_mode = "extract" =>
        \A i \in DOMAIN ep_calls : CallHigh(ep_calls[i]) =>
            /\ i = Len(ep_calls)
            /\ ep_pc # "loop"
            /\ ep_pc = "done" =>
                   ep_returned = IF FGe(ep_calls[i].result.val.confidence, min_quality)
                                   THEN ep_calls[i].result ELSE NoContent

\* Witness of C16: the second of at least three extractors left a valid
\* content of score 0.8 or more; no third call was made and extract
\* returned that content.
C16_Witness ==
    /\ ExtractDone
    /\ Len(extractors) >= 3
    /\ Len(ep_calls) = 2
    /\ CallUsable(ep_calls[1])
    /\ CallHigh(ep_calls[2])
    /\ ep_returned = ep_calls[2].result

\* C17 as stated: after an extractor raised or returned None, extract and
\* extract_all call every later extractor of the list.
C17_AllLaterExtractorsTried ==
    (ep_pc = "done" /\ \E i \in DOMAIN ep_calls : CallFailed(ep_calls[i])) =>
        Len(ep_calls) = Len(extractors)

\* C17, amended: an extractor that raised or returned None does not end the
\* loop: extract_all calls every later extractor, and extract calls
\* the later extractors up to the first that leaves a valid content of
\* score 0.8 or more.
C17_FailureDoesNotEndLoop ==
    \A i \in DOMAIN ep_calls : CallFailed(ep_calls[i]) =>
        /\ CalledInOrder
        /\ ep_pc = "loop" => ep_index = Len(ep_calls) + 1
        /\ ep_pc # "loop" =>
              \/ Len(ep_calls) = Len(extractors)
              \/ /\ ep_mode = "extract"
                 /\ i < Len(ep_calls)
                 /\ CallHigh(ep_calls[Len(ep_calls)])

\* Witness of C17: the first extractor raised, the second returned None,
\* all of at least three extractors were called and extract returned the
\* content of a later one.
C17_Witness ==
    /\ ExtractDone
    /\ Len(extractors) >= 3
    /\ Len(ep_calls) = Len(extractors)
    /\ ep_calls[1].kind = "raise"
    /\ ep_calls[2].kind = "none"
    /\ ep_returned.some

\* The contents of a sequence, with their numbers of occurrences.
Count(seq, x) == Cardinality({i \in DOMAIN seq : seq[i] = x})

\* C18: extract_all calls every extractor and returns exactly the valid
\* results, each with its quality score as confidence, in falling order of
\* confidence.
C18_AllValidResultsSorted ==
    ExtractAllDone =>
        /\ Len(ep_calls) = Len(extractors)
        /\ CalledInOrder
        /\ \A i \in DOMAIN ep_calls :
               CallUsable(ep_calls[i]) => Count(results, ep_calls[i].result.val) = 1
        /\ \A k \in DOMAIN results :
               /\ \E i \in DOMAIN ep_calls :
                      CallUsable(ep_calls[i]) /\ ep_calls[i].result.val = results[k]
               /\ is_valid(results[k])
               /\ results[k].confidence = quality_score(results[k])
        /\ \A k, l \in DOMAIN results :
               k < l => FGe(results[k].confidence, results[l].confidence)

\* Witness of C18: one extractor raised, the others left valid contents
\* of scores 0.2, 0.8 and 1.0 in an order other than the falling one, and
\* all of these were returned, the one of score 1.0 first.
C18_Witness ==
    /\ ExtractAllDone
    /\ Len(ep_calls) >= 4
    /\ \E i \in DOMAIN ep_calls : ep_calls[i].kind = "raise"
    /\ CallUsable(ep_calls[1]) /\ ep_calls[1].result.val.confidence = <<20, 0>>
    /\ CallHigh(ep_calls[2]) /\ ep_calls[2].result.val.confidence = <<80, 0>>
    /\ Len(results) = 3
    /\ results[1].confidence = <<100, 0>>
    /\ results[3].confidence = <<20, 0>>

\* Some call of extractor e in the log; some with a content of 0.8 or more.
Called(e) == \E i \in DOMAIN ep_calls : ep_calls[i].extractor = e
CalledHigh(e) ==
    \E i \in DOMAIN ep_calls : ep_calls[i].extractor = e /\ CallHigh(ep_calls[i])

Installed(e) == \E i \in DOMAIN extractors : extractors[i] = e

\* C19 as stated: newspaper3k is called only when trafilatura is not
\* available or has left no valid content for the document.
C19_Newspaper3kOnlyAfterFailure ==
    Called("newspaper3k") =>
        \/ ~Installed("trafilatura")
        \/ \E i \in DOMAIN ep_calls :
               /\ ep_calls[i].extractor = "trafilatura"
               /\ ~CallUsable(ep_calls[i])

\* C19, amended: extract_all always calls newspaper3k; extract calls it
\* unless custom_selector or trafilatura, the extractors ahead of it, left a
\* valid content of score 0.8 or more, whether or not trafilatura left a
\* valid content.
C19_Newspaper3kUnlessHighQuality ==
    (ep_pc = "done" /\ Installed("newspaper3k")) =>
        (Called("newspaper3k") <=>
            \/ ep_mode = "extract_all"
            \/ ~(CalledHigh("custom_selector") \/ CalledHigh("trafilatura")))

\* Witness of C19: in extract, trafilatura left a valid content of score
\* below 0.8 and newspaper3k was called after it.
C19_Witness ==
    /\ ExtractDone
    /\ \E i \in DOMAIN ep_calls :
           /\ ep_calls[i].extractor = "trafilatura"
           /\ CallUsable(ep_calls[i])
           /\ ~CallHigh(ep_calls[i])
           /\ i < Len(ep_calls)
           /\ ep_calls[i + 1].extractor = "newspaper3k"

\* C27: what extract returns is the result of a call that left a valid
\* content, no call left a valid content of a higher score, no earlier call
\* left one of the same score, and its confidence is its quality_score().
C27_ReturnsEarliestBest ==
    (ExtractDone /\ ep_returned.some) =>
        /\ ep_returned.val.confidence = quality_score(ep_returned.val)
        /\ \E i \in DOMAIN ep_calls :
               /\ CallUsable(ep_calls[i])
               /\ ep_calls[i].result = ep_returned
               /\ \A j \in DOMAIN ep_calls :
                      CallUsable(ep_calls[j]) =>
                          /\ FGe(ep_returned.val.confidence,
                                 ep_calls[j].result.val.confidence)
                          /\ (j < i => FGt(ep_returned.val.confidence,
                                           ep_calls[j].result.val.confidence))

\* Witness of C27: three calls left valid contents, the first of a lower
\* score than the second and the third of the same score as the second;
\* extract returned the second.
C27_Witness ==
    /\ ExtractDone
    /\ ep_returned.some
    /\ \E i, j, k \in DOMAIN ep_calls :
           /\ i < j /\ j < k
           /\ CallUsable(ep_calls[i]) /\ CallUsable(ep_calls[k])
           /\ ep_calls[j].result = ep_returned
           /\ FGt(ep_returned.val.confidence, ep_calls[i].result.val.confidence)
           /\ ep_calls[k].result.val.confidence = ep_returned.val.confidence

----------------------------------------------------------------------------
(* BeautifulSoupExtractor.extract (extractors.py): the title and the        *)
(* condition of its return.  For each selector of the title the             *)
(* document has no element ("absent"), a first element without content      *)
(* ("empty") or a first element with content ("filled"); the title taken    *)
(* from a filled element is written as the selector it came from, and a     *)
(* title of no content (None or '') as "".                                  *)

\* The selectors in the order og:title, <title>, h1.
TitleSelectors_meta_first ==
    <<"meta[property=og:title]", "title", "h1", "meta[name=twitter:title]">>

\* The selectors of the title loop, in its order.
TitleSelectors ==
    <<"h1", "meta[property=og:title]", "meta[name=twitter:title]", "title">>

\* What soup.select_one(selector) finds.
Elements == {"absent", "empty", "filled"}

\* The documents: what each title selector finds, and whether the article
\* selectors give any text.
Documents ==
    [title : [{TitleSelectors[i] : i \in DOMAIN TitleSelectors} -> Elements],
     text : BOOLEAN]

\* "elem.get('content') if elem.name == 'meta' else elem.get_text(strip=True)"
ElementTitle(doc, selector) ==
    IF doc.title[selector] = "filled" THEN selector ELSE ""

RECURSIVE SelectTitle(_, _, _)
\* The loop over the selectors, from `title` on: an element that is found
\* sets title, and a title with content ends the loop.
SelectTitle(doc, selectors, title) ==
    IF selectors = <<>> THEN title
    ELSE LET selector == Head(selectors) IN
         IF doc.title[selector] # "absent"
           THEN LET t == ElementTitle(doc, selector) IN
                IF t # "" THEN t ELSE SelectTitle(doc, Tail(selectors), t)
           ELSE SelectTitle(doc, Tail(selectors), title)

\* Optional[ExtractedContent], of which the title is kept.
NoSoup == [some |-> FALSE, title |-> ""]
Soup(title) == [some |-> TRUE, title |-> title]

\* What a BeautifulSoupExtractor on its own leaves alone.
besideSoup == <<scraperVars, rateLimiterVars, retryVars, pipelineVars,
    qualityVars,
    cleanerVars,
    dateVars,
    scrapeVars,
    paywallVars,
    proxyVars,
    politeVars>>

\* BeautifulSoup(html, 'html.parser') of some document.
SoupInit ==
    /\ ScraperOff /\ RateLimiterOff /\ RetryOff /\ PipelineOff
        /\ QualityOff
        /\ CleanerOff
        /\ DateOff
        /\ ScrapeOff
        /\ PaywallOff
        /\ ProxyOff
        /\ PoliteOff
    /\ bs_doc \in Documents
    /\ bs_pc = "call"
    /\ bs_result = NoSoup

\* BeautifulSoupExtractor.extract(html, url)
SoupExtract ==
    /\ bs_pc = "call"
    /\ LET title == SelectTitle(bs_doc, TitleSelectors, "")
       IN bs_result' = IF ~bs_doc.text \/ title = "" THEN NoSoup ELSE Soup(title)
    /\ bs_pc' = "done"
    /\ UNCHANGED <<bs_doc, besideSoup>>

SoupNext == SoupExtract

SpecBeautifulSoup == SoupInit /\ [][SoupNext]_vars

(* Properties of BeautifulSoupExtractor *)

Filled(selector) == bs_doc.title[selector] = "filled"

\* C20 as stated: of og:title, <title> and the first h1, the title of the
\* result is the first that is present with content, in this order.
C20_OgTitleFirst ==
    (bs_pc = "done" /\ bs_result.some) =>
        /\ Filled("meta[property=og:title]")
               => bs_result.title = "meta[property=og:title]"
        /\ (~Filled("meta[property=og:title]") /\ Filled("title"))
               => bs_result.title = "title"
        /\ (~Filled("meta[property=og:title]") /\ ~Filled("title") /\ Filled("h1"))
               => bs_result.title = "h1"

\* C20, amended: the title of the result is the first that is present with
\* content of the first h1, og:title, twitter:title and <title>, in this
\* order; there is a result exactly when one of them is and the document
\* has article text.
C20_H1First ==
    bs_pc = "done" =>
        /\ bs_result.some <=>
               (bs_doc.text /\ \E i \in DOMAIN TitleSelectors : Filled(TitleSelectors[i]))
        /\ bs_result.some =>
               /\ Filled("h1") => bs_result.title = "h1"
               /\ (~Filled("h1") /\ Filled("meta[property=og:title]"))
                      => bs_result.title = "meta[property=og:title]"
               /\ (~Filled("h1") /\ ~Filled("meta[property=og:title]")
                                 /\ Filled("meta[name=twitter:title]"))
                      => bs_result.title = "meta[name=twitter:title]"
               /\ (~Filled("h1") /\ ~Filled("meta[property=og:title]")
                                 /\ ~Filled("meta[name=twitter:title]"))
                      => bs_result.title = "title"

\* Witness of C20: the document has an h1, an og:title and a <title> with
\* content, and the title of the result is that of the h1.
C20_Witness ==
    /\ bs_pc = "done"
    /\ Filled("h1") /\ Filled("meta[property=og:title]") /\ Filled("title")
    /\ bs_result = Soup("h1")

----------------------------------------------------------------------------
(* ExtractedContent.quality_score (extractors.py) on its own: a content is  *)
(* scored, a field of it is filled in, and it is scored again.              *)

\* Every content, by what quality_score reads of it.
AllContents ==
    {ExtractedContent(title, text, date, authors, description, image) :
        title \in {"none", "blank", "short", "long"},
        text \in {"none", "short", "medium", "long"},
        date \in BOOLEAN, authors \in BOOLEAN,
        description \in BOOLEAN, image \in BOOLEAN}

\* The fields a content gains.
Fields == {"date", "authors", "description", "image"}

\* The content with field f filled in.
WithField(c, f) ==
    CASE f = "date" -> [c EXCEPT !.date = TRUE]
      [] f = "authors" -> [c EXCEPT !.authors = TRUE]
      [] f = "description" -> [c EXCEPT !.description = TRUE]
      [] f = "image" -> [c EXCEPT !.image = TRUE]

HasField(c, f) ==
    CASE f = "date" -> c.date
      [] f = "authors" -> c.authors
      [] f = "description" -> c.description
      [] f = "image" -> c.image

\* What a content on its own leaves alone.
besideQuality == <<scraperVars, rateLimiterVars, retryVars, pipelineVars,
                   soupVars,
    cleanerVars,
    dateVars,
    scrapeVars,
    paywallVars,
    proxyVars,
    politeVars>>

QualityInit ==
    /\ ScraperOff /\ RateLimiterOff /\ RetryOff /\ PipelineOff /\ SoupOff
        /\ CleanerOff
        /\ DateOff
        /\ ScrapeOff
        /\ PaywallOff
        /\ ProxyOff
        /\ PoliteOff
    /\ qs_content \in AllContents
    /\ qs_scores = <<>>

\* A call of qs_content.quality_score().
Score ==
    /\ IF qs_scores = <<>> THEN TRUE
          ELSE qs_scores[Len(qs_scores)].content # qs_content
    /\ qs_scores' = Append(qs_scores, [content |-> qs_content,
                                       score |-> quality_score(qs_content)])
    /\ UNCHANGED <<qs_content, besideQuality>>

\* A field of the scored content that was empty is filled in.
Fill(f) ==
    /\ qs_scores # <<>> /\ qs_scores[Len(qs_scores)].content = qs_content
    /\ ~HasField(qs_content, f)
    /\ qs_content' = WithField(qs_content, f)
    /\ UNCHANGED <<qs_scores, besideQuality>>

QualityNext ==
    \/ Score
    \/ \E f \in Fields : Fill(f)

SpecQuality == QualityInit /\ [][QualityNext]_vars

(* Properties of quality_score *)

\* C21: a content that gained a date, an author, a description or an image
\* scores no less than it did before, and every score lies in [0, 1].
C21_ScoreMonotonicAndBounded ==
    /\ \A i \in DOMAIN qs_scores :
           /\ FGe(qs_scores[i].score, <<0, 0>>)
           /\ FGe(<<100, 0>>, qs_scores[i].score)
    /\ \A i, j \in DOMAIN qs_scores :
           i < j => FGe(qs_scores[j].score, qs_scores[i].score)

\* Witness of C21: a content of long title and long text was scored 0.7
\* without any of the four fields and, the four being filled in one after
\* another, was scored 1.0 at the end, with the rounded sum
\* 0.7999999999999999 on the way.
C21_Witness ==
    /\ Len(qs_scores) = 5
    /\ qs_scores[1].score = <<70, 0>>
    /\ \E i \in DOMAIN qs_scores : qs_scores[i].score = <<80, -1>>
    /\ qs_scores[5].score = <<100, 0>>

----------------------------------------------------------------------------
(* TextCleaner.clean (sources/tools.py).                                    *)

\* Longest text cleaned.
MaxTextLen == 4

\* Number of times clean is applied in a row.
MaxCleans == 2

\* The characters of a text: space, tab, newline and a letter.
Alphabet == {" ", "\t", "\n", "a"}

Texts == UNION {[1..n -> Alphabet] : n \in 0..MaxTextLen}

RECURSIVE CapRuns(_, _, _)
\* re.sub of a run of cap + 1 or more ch by cap of them: the runs of ch are
\* cut to cap.
CapRuns(s, ch, cap) ==
    IF s = <<>> THEN <<>>
    ELSE LET r == CapRuns(SubSeq(s, 1, Len(s) - 1), ch, cap)
             c == s[Len(s)]
         IN IF /\ c = ch
               /\ Len(r) >= cap
               /\ \A i \in (Len(r) - cap + 1)..Len(r) : r[i] = ch
              THEN r ELSE Append(r, c)

\* text.replace('\t', ' ')
ReplaceTabs(s) == [i \in DOMAIN s |-> IF s[i] = "\t" THEN " " ELSE s[i]]

\* The characters str.strip() removes.
Whitespace == {" ", "\t", "\n"}

RECURSIVE LStrip(_)
LStrip(s) == IF s # <<>> /\ s[1] \in Whitespace THEN LStrip(Tail(s)) ELSE s

RECURSIVE RStrip(_)
RStrip(s) ==
    IF s # <<>> /\ s[Len(s)] \in Whitespace
      THEN RStrip(SubSeq(s, 1, Len(s) - 1)) ELSE s

\* str.strip()
Strip(s) == RStrip(LStrip(s))

RECURSIVE SplitLines(_)
\* text.split('\n')
SplitLines(s) ==
    IF \A i \in DOMAIN s : s[i] # "\n" THEN <<s>>
    ELSE LET i == CHOOSE k \in DOMAIN s :
                      s[k] = "\n" /\ \A h \in 1..(k - 1) : s[h] # "\n"
         IN <<SubSeq(s, 1, i - 1)>> \o SplitLines(SubSeq(s, i + 1, Len(s)))

RECURSIVE JoinLines(_)
\* '\n'.join(lines)
JoinLines(lines) ==
    IF lines = <<>> THEN <<>>
    ELSE IF Len(lines) = 1 THEN lines[1]
    ELSE lines[1] \o <<"\n">> \o JoinLines(Tail(lines))

\* "[line.strip() for line in text.split('\n')]"
StripLines(lines) == [i \in DOMAIN lines |-> Strip(lines[i])]

\* "len(line.strip()) > 3 or line.strip() == ''"
KeepLine(line) == Len(Strip(line)) > 3 \/ Strip(line) = <<>>

\* TextCleaner.clean(text)
clean(text) ==
    IF text = <<>> THEN <<>>
    ELSE LET t1 == CapRuns(text, "\n", 2)
             t2 == CapRuns(t1, " ", 1)
             t3 == ReplaceTabs(t2)
             t4 == JoinLines(StripLines(SplitLines(t3)))
             t5 == JoinLines(SelectSeq(SplitLines(t4), KeepLine))
         IN Strip(t5)

\* What a text on its own leaves alone.
besideCleaner == <<scraperVars, rateLimiterVars, retryVars, pipelineVars,
                   soupVars, qualityVars,
    dateVars,
    scrapeVars,
    paywallVars,
    proxyVars,
    politeVars>>

CleanerInit ==
    /\ ScraperOff /\ RateLimiterOff /\ RetryOff /\ PipelineOff /\ SoupOff
        /\ QualityOff
        /\ DateOff
        /\ ScrapeOff
        /\ PaywallOff
        /\ ProxyOff
        /\ PoliteOff
    /\ tc_text \in Texts
    /\ tc_cleaned = <<>>

\* clean is applied to the text, then to what it returned.
Clean ==
    /\ Len(tc_cleaned) < MaxCleans
    /\ tc_cleaned' = Append(tc_cleaned,
                            clean(IF tc_cleaned = <<>> THEN tc_text
                                  ELSE tc_cleaned[Len(tc_cleaned)]))
    /\ UNCHANGED <<tc_text, besideCleaner>>

CleanerNext == Clean

SpecCleaner == CleanerInit /\ [][CleanerNext]_vars

(* Properties of TextCleaner *)

\* C22: clean(clean(x)) equals clean(x).
C22_CleanIdempotent ==
    Len(tc_cleaned) >= 2 => tc_cleaned[2] = tc_cleaned[1]

----------------------------------------------------------------------------
(* DateNormalizer.normalize (sources/tools.py).                             *)
(* A date string is the sequence of its tokens: numbers, kept with their    *)
(* number of digits ("05" is Num(2, 5), "5" is Num(1, 5)), words, and the   *)
(* symbols "-", "/", ":", "T", "Z" and " ".  The numbers of the inputs      *)
(* have one, two or four digits.                                            *)

Num(digits, val) == [kind |-> "num", digits |-> digits, val |-> val, text |-> ""]
Sym(text) == [kind |-> "sym", digits |-> 0, val |-> 0, text |-> text]
Word(text) == [kind |-> "word", digits |-> 0, val |-> 0, text |-> text]

\* Optional[str]
NoDate == [some |-> FALSE, val |-> <<>>]
SomeDate(str) == [some |-> TRUE, val |-> str]

RECURSIVE LStripDate(_)
LStripDate(str) ==
    IF str # <<>> /\ str[1] = Sym(" ") THEN LStripDate(Tail(str)) ELSE str

RECURSIVE RStripDate(_)
RStripDate(str) ==
    IF str # <<>> /\ str[Len(str)] = Sym(" ")
      THEN RStripDate(SubSeq(str, 1, Len(str) - 1)) ELSE str

\* date_str.strip()
StripDate(str) == RStripDate(LStripDate(str))

\* A number of exactly n digits at position i.
IsNum(str, i, n) == str[i].kind = "num" /\ str[i].digits = n

\* re.match(r'\d{4}-\d{2}-\d{2}', date_str): the string begins with four
\* digits, "-", two digits, "-" and two digits.
IsoForm(str) ==
    /\ Len(str) >= 5
    /\ IsNum(str, 1, 4) /\ str[2] = Sym("-")
    /\ IsNum(str, 3, 2) /\ str[4] = Sym("-")
    /\ IsNum(str, 5, 2)

\* The formats tried, in their order, as their directives and literals.
Formats ==
    << <<"%Y", "-", "%m", "-", "%d", "T", "%H", ":", "%M", ":", "%S">>,
       <<"%Y", "-", "%m", "-", "%d", "T", "%H", ":", "%M", ":", "%S", "Z">>,
       <<"%Y", "-", "%m", "-", "%d", " ", "%H", ":", "%M", ":", "%S">>,
       <<"%d", "/", "%m", "/", "%Y">>,
       <<"%d", "/", "%m", "/", "%Y", " ", "%H", ":", "%M">>,
       <<"%Y", "/", "%m", "/", "%d">> >>

\* A token is what a directive or a literal of a format accepts.
Accepts(item, tok) ==
    CASE item = "%Y" -> tok.kind = "num" /\ tok.digits = 4
      [] item = "%m" -> tok.kind = "num" /\ tok.digits \in 1..2 /\ tok.val \in 1..12
      [] item = "%d" -> tok.kind = "num" /\ tok.digits \in 1..2 /\ tok.val \in 1..31
      [] item = "%H" -> tok.kind = "num" /\ tok.digits \in 1..2 /\ tok.val \in 0..23
      [] item = "%M" -> tok.kind = "num" /\ tok.digits \in 1..2 /\ tok.val \in 0..59
      [] item = "%S" -> tok.kind = "num" /\ tok.digits \in 1..2 /\ tok.val \in 0..61
      [] OTHER -> tok = Sym(item)

\* The value the string gives to a directive of the format.
Field(str, fmt, item) ==
    str[CHOOSE i \in DOMAIN fmt : fmt[i] = item].val

IsLeap(year) == (year % 4 = 0 /\ year % 100 # 0) \/ year % 400 = 0

DaysIn(year, month) ==
    IF month \in {4, 6, 9, 11} THEN 30
    ELSE IF month = 2 THEN (IF IsLeap(year) THEN 29 ELSE 28)
    ELSE 31

\* datetime.strptime(date_str, fmt) does not raise ValueError.
Parses(str, fmt) ==
    /\ Len(str) = Len(fmt)
    /\ \A i \in DOMAIN fmt : Accepts(fmt[i], str[i])
    /\ Field(str, fmt, "%d") <= DaysIn(Field(str, fmt, "%Y"), Field(str, fmt, "%m"))

\* dt.strftime('%Y-%m-%d') and f"{year:04d}-{month:02d}-{day:02d}"
IsoDate(year, month, day) ==
    <<Num(4, year), Sym("-"), Num(2, month), Sym("-"), Num(2, day)>>

\* The keys of MONTH_MAP_PT met in the inputs, and str.lower() of the
\* words of the inputs.
MONTH_MAP_PT == [janeiro |-> 1, jan |-> 1, dezembro |-> 12, dez |-> 12]
Lower(text) == IF text = "Janeiro" THEN "janeiro" ELSE text

\* (\d{1,2})\s+de\s+(\w+)\s+de\s+(\d{4}), ignoring case, at position i.
LongFormAt(str, i) ==
    /\ i + 8 <= Len(str)
    /\ str[i].kind = "num"
    /\ str[i + 1] = Sym(" ")
    /\ str[i + 2].kind = "word" /\ Lower(str[i + 2].text) = "de"
    /\ str[i + 3] = Sym(" ")
    /\ str[i + 4].kind \in {"word", "num"}
    /\ str[i + 5] = Sym(" ")
    /\ str[i + 6].kind = "word" /\ Lower(str[i + 6].text) = "de"
    /\ str[i + 7] = Sym(" ")
    /\ IsNum(str, i + 8, 4)

\* The end of normalize: the long form in Portuguese.
NormalizeLongForm(str) ==
    IF \E i \in DOMAIN str : LongFormAt(str, i)
      THEN LET i == CHOOSE k \in DOMAIN str :
                        LongFormAt(str, k) /\ \A h \in 1..(k - 1) : ~LongFormAt(str, h)
               day == str[i].val
               month_name == Lower(str[i + 4].text)
               year == str[i + 8].val
           IN IF str[i + 4].kind = "word" /\ month_name \in DOMAIN MONTH_MAP_PT
                THEN SomeDate(IsoDate(year, MONTH_MAP_PT[month_name], day))
                ELSE NoDate
      ELSE NoDate

\* DateNormalizer.normalize(date_str)
normalize(date_str) ==
    IF date_str = <<>> THEN NoDate
    ELSE LET str == StripDate(date_str) IN
         IF IsoForm(str) THEN SomeDate(str)
         ELSE IF \E k \in DOMAIN Formats : Parses(str, Formats[k])
           THEN LET k == CHOOSE k \in DOMAIN Formats :
                             /\ Parses(str, Formats[k])
                             /\ \A h \in 1..(k - 1) : ~Parses(str, Formats[h])
                    fmt == Formats[k]
                IN SomeDate(IsoDate(Field(str, fmt, "%Y"), Field(str, fmt, "%m"),
                                    Field(str, fmt, "%d")))
           ELSE NormalizeLongForm(str)

\* The numbers written for the month and for the day in the inputs.
MonthTokens == {Num(2, 1), Num(1, 2), Num(2, 13)}
DayTokens == {Num(2, 28), Num(1, 5), Num(2, 31), Num(2, 99)}

\* The words written for the month in the inputs.
MonthWords == {"janeiro", "Janeiro", "dez", "marco"}

\* The time 10:30:00 and the time 10:30.
Seconds == <<Num(2, 10), Sym(":"), Num(2, 30), Sym(":"), Num(2, 0)>>
Minutes == <<Num(2, 10), Sym(":"), Num(2, 30)>>

\* The date strings handed to normalize: the shapes of dates of 2026 for
\* every month and day token, the long forms, a word, and the empty
\* string, each also with a space before and after.
DateStrings ==
    LET y == Num(4, 2026)
        plain ==
            UNION {{<<y, Sym("-"), m, Sym("-"), d>>,
                    <<y, Sym("-"), m, Sym("-"), d, Sym("T")>> \o Seconds,
                    <<y, Sym("-"), m, Sym("-"), d, Sym("T")>> \o Seconds \o <<Sym("Z")>>,
                    <<y, Sym("-"), m, Sym("-"), d, Sym(" ")>> \o Seconds,
                    <<d, Sym("/"), m, Sym("/"), y>>,
                    <<d, Sym("/"), m, Sym("/"), y, Sym(" ")>> \o Minutes,
                    <<y, Sym("/"), m, Sym("/"), d>>} :
                   m \in MonthTokens, d \in DayTokens}
            \cup {<<d, Sym(" "), Word("de"), Sym(" "), Word(w), Sym(" "),
                    Word("de"), Sym(" "), y>> : d \in DayTokens, w \in MonthWords}
            \cup {<<Word("foo")>>, <<>>}
    IN plain \cup {<<Sym(" ")>> \o str \o <<Sym(" ")>> : str \in plain}

\* What a date string on its own leaves alone.
besideDate == <<scraperVars, rateLimiterVars, retryVars, pipelineVars,
                soupVars, qualityVars, cleanerVars,
    scrapeVars,
    paywallVars,
    proxyVars,
    politeVars>>

DateInit ==
    /\ ScraperOff /\ RateLimiterOff /\ RetryOff /\ PipelineOff /\ SoupOff
        /\ QualityOff /\ CleanerOff
        /\ ScrapeOff
        /\ PaywallOff
        /\ ProxyOff
        /\ PoliteOff
    /\ dn_date_str \in DateStrings
    /\ dn_pc = "call"
    /\ dn_result = NoDate

\* DateNormalizer.normalize(dn_date_str)
Normalize ==
    /\ dn_pc = "call"
    /\ dn_result' = normalize(dn_date_str)
    /\ dn_pc' = "done"
    /\ UNCHANGED <<dn_date_str, besideDate>>

DateNext == Normalize

SpecDate == DateInit /\ [][DateNext]_vars

(* Properties of DateNormalizer *)

\* A string of the form YYYY-MM-DD.
Canonical(str) ==
    /\ Len(str) = 5
    /\ IsNum(str, 1, 4) /\ str[2] = Sym("-")
    /\ IsNum(str, 3, 2) /\ str[4] = Sym("-")
    /\ IsNum(str, 5, 2)

\* C23: normalize returns None or a string of the form YYYY-MM-DD, and
\* returns a string of that form as it is.
C23_CanonicalOrNone ==
    dn_pc = "done" =>
        /\ dn_result.some => Canonical(dn_result.val)
        /\ Canonical(dn_date_str) => dn_result = SomeDate(dn_date_str)

----------------------------------------------------------------------------
(* Further properties of get_latest_articles: the errors and the            *)
(* retry_count of the metrics record.                                       *)

\* Positions in the log of the attempts that raised.
RaisedAt(ev) == {i \in CollectAt(ev) : ev[i].arg = "raise"}

\* The 1-based number of the last attempt that raised.
LastRaised(ev) ==
    CollectsUpTo(ev, CHOOSE i \in RaisedAt(ev) : \A j \in RaisedAt(ev) : j <= i)

\* C24: a call in which attempts raised ends with a metrics record, of
\* which the errors are the exception of the last attempt that raised and
\* no other.
C24_OnlyFinalExceptionRecorded ==
    (Ended /\ RaisedAt(events) # {}) =>
        /\ Recorded
        /\ Last(metrics_history).errors = <<LastRaised(events)>>

\* C28: in every metrics record retry_count is 0 exactly when errors is
\* empty, and is otherwise the number of the last attempt that raised,
\* between len(errors) and MAX_RETRIES; in the running call errors has one
\* entry per attempt that raised and none for an attempt that returned an
\* empty list, and retry_count is the number of the last attempt that
\* raised.
C28_RetryCountIsLastRaised ==
    /\ \A k \in DOMAIN metrics_history :
           LET m == metrics_history[k] IN
           /\ m.retry_count = 0 <=> m.errors = <<>>
           /\ m.errors # <<>> =>
                  /\ m.retry_count = Last(m.errors)
                  /\ Len(m.errors) <= m.retry_count
                  /\ m.retry_count <= MAX_RETRIES
    /\ pc \in {"attempt", "final", "validate"} =>
           /\ Len(errors) = Cardinality(RaisedAt(events))
           /\ retry_count = IF RaisedAt(events) = {} THEN 0 ELSE LastRaised(events)
    /\ Recorded =>
           /\ Last(metrics_history).errors = errors
           /\ Last(metrics_history).retry_count = retry_count

\* Witness of C28: two attempts returned an empty list and the third
\* raised; the record has one error and retry_count 3.
C28_Witness ==
    /\ Recorded
    /\ Len(events) >= 4
    /\ Cardinality({i \in CollectAt(events) : events[i].arg = "empty"}) = 2
    /\ Cardinality(RaisedAt(events)) = 1
    /\ Last(metrics_history).errors = <<3>>
    /\ Last(metrics_history).retry_count = 3

----------------------------------------------------------------------------
(* scrape_urls (scrape.py).                                                 *)

\* Longest list of URLs handed to scrape_urls.
MaxUrls == 3

\* The URLs of the lists.
Urls == {"https://a.example/1", "https://b.example/2"}

UrlLists == UNION {[1..n -> Urls] : n \in 0..MaxUrls}

\* Values of max_articles: None and -1, 0, 1, 2.
MaxArticlesArgs == {None} \cup {Some(n) : n \in -1..2}

\* "urls[: max(0, int(max_articles))]" when max_articles is given.
SelectUrls(url_list, max_articles) ==
    IF max_articles.some THEN PySliceTo(url_list, Max(0, max_articles.val))
    ELSE url_list

\* An Article of types.py, by what scrape_urls sets of it: url, scraped_at
\* and the keys "error" and "http_status" of extra ("" and 0 when absent).
Article(url, scraped_at, error, http_status) ==
    [url |-> url, scraped_at |-> scraped_at, error |-> error,
     http_status |-> http_status]

\* The Article built without the time of the scrape.
ArticleOnError_unstamped(url, scraped_at, e) == Article(url, None, e, 0)

\* "Article(url=url, scraped_at=scraped_at, extra={"error": str(e)})"
ArticleOnError(url, scraped_at, e) == Article(url, Some(scraped_at), e, 0)

\* extract_article(html, url) with scraped_at and http_status set.
ArticleExtracted(url, scraped_at) == Article(url, Some(scraped_at), "", 200)

\* What happens to a URL: it is fetched and extracted, session.get raises
\* or extract_article raises.
UrlOutcomes == {"ok", "get raises", "extract_article raises"}

\* What a scrape_urls call leaves alone.
besideScrape == <<scraperVars, rateLimiterVars, retryVars, pipelineVars,
                  soupVars, qualityVars, cleanerVars, dateVars,
    paywallVars,
    proxyVars,
    politeVars>>

ScrapeInit ==
    /\ ScraperOff /\ RateLimiterOff /\ RetryOff /\ PipelineOff /\ SoupOff
        /\ QualityOff /\ CleanerOff /\ DateOff
        /\ PaywallOff
        /\ ProxyOff
        /\ PoliteOff
    /\ su_urls \in UrlLists
    /\ su_max_articles \in MaxArticlesArgs
    /\ su_out \in {"missing", "jsonl", "invalid"}
    /\ su_pc = "start"
    /\ selected_urls = <<>>
    /\ su_index = 0
    /\ su_now = 0
    /\ articles = <<>>
    /\ su_outcomes = <<>>
    /\ su_result = "running"

\* The entry of scrape_urls: the check of the output and the selection.
ScrapeStart ==
    /\ su_pc = "start"
    /\ IF su_out = "missing"
         THEN /\ su_pc' = "done"
              /\ su_result' = "ValueError"
              /\ UNCHANGED <<selected_urls, su_index>>
         ELSE /\ selected_urls' = SelectUrls(su_urls, su_max_articles)
              /\ su_index' = 1
              /\ su_pc' = "loop"
              /\ UNCHANGED su_result
    /\ UNCHANGED <<su_urls, su_max_articles, su_out, su_now, articles,
                   su_outcomes, besideScrape>>

\* One pass of the loop over selected_urls.
ScrapeUrl(outcome) ==
    /\ su_pc = "loop"
    /\ su_index <= Len(selected_urls)
    /\ LET url == selected_urls[su_index]
           scraped_at == su_now + 1
       IN /\ su_now' = scraped_at
          /\ articles' = Append(articles,
                 IF outcome = "ok" THEN ArticleExtracted(url, scraped_at)
                 ELSE ArticleOnError(url, scraped_at, outcome))
    /\ su_outcomes' = Append(su_outcomes, outcome)
    /\ su_index' = su_index + 1
    /\ UNCHANGED <<su_urls, su_max_articles, su_out, su_pc, selected_urls,
                   su_result, besideScrape>>

\* After the loop: the articles are written and returned.
ScrapeWrite ==
    /\ su_pc = "loop"
    /\ su_index > Len(selected_urls)
    /\ su_result' = IF su_out = "invalid" THEN "ValueError" ELSE "return"
    /\ su_pc' = "done"
    /\ UNCHANGED <<su_urls, su_max_articles, su_out, selected_urls, su_index,
                   su_now, articles, su_outcomes, besideScrape>>

ScrapeNext ==
    \/ ScrapeStart
    \/ \E outcome \in UrlOutcomes : ScrapeUrl(outcome)
    \/ ScrapeWrite

SpecScrape == ScrapeInit /\ [][ScrapeNext]_vars

(* Properties of scrape_urls *)

\* The URLs scrape_urls is to process: all, or the first max_articles.
Expected ==
    IF su_max_articles.some /\ su_max_articles.val <= 0 THEN <<>>
    ELSE IF su_max_articles.some /\ su_max_articles.val < Len(su_urls)
      THEN SubSeq(su_urls, 1, su_max_articles.val)
    ELSE su_urls

\* C25: the list scrape_urls returns has one Article per selected URL, in
\* the order of the input, each with its url and a scraped_at; the Article of
\* a URL whose fetch or extraction raised carries the error text, and the
\* URLs after it are processed all the same.
C25_OneArticlePerUrl ==
    /\ su_pc = "loop" => Len(articles) = su_index - 1
    /\ su_result = "return" =>
           /\ Len(articles) = Len(Expected)
           /\ Len(su_outcomes) = Len(Expected)
           /\ \A i \in DOMAIN articles :
                  /\ articles[i].url = Expected[i]
                  /\ articles[i].scraped_at.some
                  /\ su_outcomes[i] # "ok" => articles[i].error = su_outcomes[i]
                  /\ su_outcomes[i] = "ok" => articles[i].error = ""

\* Witness of C25: of three URLs the first two were selected; the fetch of
\* the first raised, the second was extracted, and both are returned.
C25_Witness ==
    /\ su_result = "return"
    /\ Len(su_urls) = 3
    /\ su_max_articles = Some(2)
    /\ su_outcomes = <<"get raises", "ok">>
    /\ Len(articles) = 2
    /\ articles[1].url = su_urls[1] /\ articles[1].error = "get raises"
    /\ articles[2].url = su_urls[2] /\ articles[2].error = ""

----------------------------------------------------------------------------
(* PaywallDetector.detect (sources/tools.py).                               *)
(* The html is kept as the set of the phrases of a small vocabulary that    *)
(* occur in it and the set of the paywall selectors that match it, the      *)
(* text as the class of its length.                                         *)

\* Number of detect calls made in one behaviour.
MaxDetects == 3

\* Phrases that occur in the html.
Vocabulary == {"assine", "Premium", "subscriber", "paywall"}

\* Selectors that match the html; an element of class paywall has the word
\* paywall in the html.
Selectors == {".paywall", ".article-lock"}

\* The text argument: None, '', shorter than 200 characters after strip,
\* or longer.
TextArgs == {"None", "empty", "short", "long"}

\* The entries of PAYWALL_INDICATORS that occur in a phrase of the
\* vocabulary, in the order of the list; "premium" is listed twice.
PAYWALL_INDICATORS ==
    <<"assine", "premium", "subscribe", "subscriber", "premium", "paywall">>

\* The entries of PAYWALL_SELECTORS among Selectors, in the order of the list.
PAYWALL_SELECTORS == <<".paywall", ".article-lock">>

\* str.lower() of a phrase.
LowerPhrase(w) == IF w = "Premium" THEN "premium" ELSE w

\* "indicator in html_lower": the indicator is part of a phrase of the html.
InHtml(indicator, html_lower) ==
    \/ indicator \in html_lower
    \/ indicator = "subscribe" /\ "subscriber" \in html_lower

\* n * 0.3 wrapped at 1.0.
TimesThreeTenths_wrapped(n) == <<(30 * n) % 100, 0>>

\* The float n * 0.3: 3 * 0.3 is 0.8999999999999999 and 6 * 0.3 is
\* 1.7999999999999998.
TimesThreeTenths(n) == <<30 * n, IF n \in {3, 6} THEN -1 ELSE 0>>

\* PaywallDetector.detect(html, text): the returned dict.
detect(page) ==
    LET html_lower == {LowerPhrase(w) : w \in page.phrases}
        by_text == SelectSeq(PAYWALL_INDICATORS, LAMBDA i : InHtml(i, html_lower))
        by_selector == IF page.parses
                         THEN SelectSeq(PAYWALL_SELECTORS,
                                        LAMBDA sel : sel \in page.selectors)
                         ELSE <<>>
        by_length == IF page.text = "short" THEN <<"short_text">> ELSE <<>>
        indicators == by_text \o by_selector \o by_length
    IN [has_paywall |-> Len(indicators) > 0,
        confidence |-> FMin(TimesThreeTenths(Len(indicators)), <<100, 0>>),
        indicators |-> indicators]

\* The pages handed to detect; parses is whether BeautifulSoup is there.
Pages ==
    {pg \in [phrases : SUBSET Vocabulary, selectors : SUBSET Selectors,
             parses : BOOLEAN, text : TextArgs] :
        ".paywall" \in pg.selectors => "paywall" \in pg.phrases}

\* What a page on its own leaves alone.
besidePaywall == <<scraperVars, rateLimiterVars, retryVars, pipelineVars,
                   soupVars, qualityVars, cleanerVars, dateVars, scrapeVars,
    proxyVars,
    politeVars>>

PaywallInit ==
    /\ ScraperOff /\ RateLimiterOff /\ RetryOff /\ PipelineOff /\ SoupOff
        /\ QualityOff /\ CleanerOff /\ DateOff /\ ScrapeOff
        /\ ProxyOff
        /\ PoliteOff
    /\ pd_page \in Pages
    /\ pd_log = <<>>

\* A call of detect on the page.
Detect ==
    /\ Len(pd_log) < MaxDetects
    /\ IF pd_log = <<>> THEN TRUE ELSE pd_log[Len(pd_log)].page # pd_page
    /\ pd_log' = Append(pd_log, [page |-> pd_page, dict |-> detect(pd_page)])
    /\ UNCHANGED <<pd_page, besidePaywall>>

\* The inspected page gains a phrase.
GainPhrase(w) ==
    /\ pd_log # <<>> /\ pd_log[Len(pd_log)].page = pd_page
    /\ Len(pd_log) < MaxDetects
    /\ w \notin pd_page.phrases
    /\ pd_page' = [pd_page EXCEPT !.phrases = @ \cup {w}]
    /\ UNCHANGED <<pd_log, besidePaywall>>

\* The inspected page gains an element that a selector matches.
GainElement(sel) ==
    /\ pd_log # <<>> /\ pd_log[Len(pd_log)].page = pd_page
    /\ Len(pd_log) < MaxDetects
    /\ sel \notin pd_page.selectors
    /\ sel = ".paywall" => "paywall" \in pd_page.phrases
    /\ pd_page' = [pd_page EXCEPT !.selectors = @ \cup {sel}]
    /\ UNCHANGED <<pd_log, besidePaywall>>

PaywallNext ==
    \/ Detect
    \/ \E w \in Vocabulary : GainPhrase(w)
    \/ \E sel \in Selectors : GainElement(sel)

SpecPaywall == PaywallInit /\ [][PaywallNext]_vars

(* Properties of PaywallDetector *)

\* C26: has_paywall is true exactly when an indicator was found, the
\* confidence is min(0.3 x number of indicators, 1.0) to the rounding of the
\* product, and of two results the one with more indicators has the same
\* confidence or a higher one.
C26_ConfidenceGrowsWithIndicators ==
    /\ \A i \in DOMAIN pd_log :
           LET d == pd_log[i].dict
               n == Len(d.indicators)
           IN /\ d.has_paywall <=> n > 0
              /\ d.confidence[1] = Min(30 * n, 100)
              /\ d.confidence[2] \in {-1, 0}
              /\ n >= 4 => d.confidence = <<100, 0>>
    /\ \A i, j \in DOMAIN pd_log :
           Len(pd_log[i].dict.indicators) <= Len(pd_log[j].dict.indicators)
               => FGe(pd_log[j].dict.confidence, pd_log[i].dict.confidence)

\* Witness of C26: a page without indicators, has_paywall false and
\* confidence 0.0, gained a phrase and then an element: one indicator and
\* confidence 0.3, then four indicators and confidence 1.0.
C26_Witness ==
    /\ Len(pd_log) = 3
    /\ ~pd_log[1].dict.has_paywall /\ pd_log[1].dict.confidence = <<0, 0>>
    /\ pd_log[2].dict.has_paywall
    /\ Len(pd_log[2].dict.indicators) = 1
    /\ pd_log[2].dict.confidence = <<30, 0>>
    /\ Len(pd_log[3].dict.indicators) >= 2
    /\ FGe(pd_log[3].dict.confidence, <<60, 0>>)

----------------------------------------------------------------------------
(* ProxyManager (proxy_manager.py): the selection of a proxy and the        *)
(* marks of its outcome.  Rates are kept as fractions <<n, d>>.             *)

\* Number of mark_failure and mark_success calls made in one behaviour.
MaxMarks == 3

\* The proxies of FREE_PROXIES, three of them.
FREE_PROXIES == <<"200.155.139.242:3128", "191.252.103.16:80",
                  "200.174.198.86:8888">>

\* The domain whose statistics are followed, and no domain.
NoDomain == "None"
Domains == {"infomoney.com.br"}

\* Values of max_failures.
MaxFailuresArgs == {1, 2}

\* Values of min_success_rate: 0.3 (the default) and 1.0.
MinSuccessRates == {<<3, 10>>, <<1, 1>>}

\* What _load_stats reads, <<failures, successes>> per proxy: no file, and
\* a file of an earlier run.
StatsFiles == {<<<<0, 0>>, <<0, 0>>, <<0, 0>>>>,
               <<<<2, 0>>, <<1, 1>>, <<0, 0>>>>}

\* ProxyInfo(host, port), with the numbers _load_stats read.
ProxyInfo(failures, successes) ==
    [working |-> TRUE, failures |-> failures, successes |-> successes,
     domain_success |-> 0, domain_failure |-> 0]

\* x >= y for two fractions.
RateGe(x, y) == x[1] * y[2] >= y[1] * x[2]

\* ProxyInfo.success_rate
success_rate(proxy) ==
    IF proxy.successes + proxy.failures = 0 THEN <<1, 2>>
    ELSE <<proxy.successes, proxy.successes + proxy.failures>>

\* ProxyInfo.get_domain_success_rate(domain)
get_domain_success_rate(proxy) ==
    IF proxy.domain_success + proxy.domain_failure = 0 THEN success_rate(proxy)
    ELSE <<proxy.domain_success, proxy.domain_success + proxy.domain_failure>>

\* ProxyInfo.record_success(domain)
record_success(proxy, domain) ==
    [proxy EXCEPT !.successes = @ + 1,
                  !.failures = Max(0, @ - 1),
                  !.working = TRUE,
                  !.domain_success = IF domain \in Domains THEN @ + 1 ELSE @]

\* ProxyInfo.record_failure(domain)
record_failure(proxy, domain) ==
    [proxy EXCEPT !.failures = @ + 1,
                  !.domain_failure = IF domain \in Domains THEN @ + 1 ELSE @]

\* The counters are reset and the flags are left as they are.
ResetFailures_countersOnly(proxies) ==
    [i \in DOMAIN proxies |-> [proxies[i] EXCEPT !.failures = 0]]

\* ProxyManager._reset_failures()
ResetFailures(proxies) ==
    [i \in DOMAIN proxies |-> [proxies[i] EXCEPT !.failures = 0, !.working = TRUE]]

\* "[p for p in self.proxies if p.working]": the positions in self.proxies.
WorkingProxies(proxies) ==
    SelectSeq([i \in DOMAIN proxies |-> i], LAMBDA i : proxies[i].working)

\* The proxies after "if not working_proxies: self._reset_failures()".
AfterReset(proxies) ==
    IF WorkingProxies(proxies) = <<>> THEN ResetFailures(proxies) ELSE proxies

\* working_proxies after "working_proxies = self.proxies".
Candidates(proxies) ==
    IF WorkingProxies(proxies) = <<>> THEN [i \in DOMAIN proxies |-> i]
    ELSE WorkingProxies(proxies)

RECURSIVE SortByRate(_, _)
\* "scored_proxies.sort(key=lambda x: x[1], reverse=True)": a stable sort.
SortByRate(seq, proxies) ==
    IF seq = <<>> THEN <<>>
    ELSE LET x == seq[Len(seq)]
             rate(i) == get_domain_success_rate(proxies[i])
             rest == SortByRate(SubSeq(seq, 1, Len(seq) - 1), proxies)
             before == SelectSeq(rest, LAMBDA i : RateGe(rate(i), rate(x)))
             after == SelectSeq(rest, LAMBDA i : ~RateGe(rate(i), rate(x)))
         IN before \o <<x>> \o after

\* What get_best_proxy_for_domain can return: viable[0] or a random choice
\* of working_proxies, or scored_proxies[0][0] when no proxy is viable.
BestChoices(candidates, proxies, least_rate) ==
    LET scored_proxies == SortByRate(candidates, proxies)
        viable == SelectSeq(scored_proxies,
                      LAMBDA i : RateGe(get_domain_success_rate(proxies[i]),
                                        least_rate))
    IN IF viable # <<>>
         THEN {viable[1]} \cup {candidates[k] : k \in DOMAIN candidates}
         ELSE {scored_proxies[1]}

\* The entry of pm_last for a call; proxy is the position of the proxy
\* returned or marked, none_working whether no proxy was working at entry.
ProxyCall(op, proxy, none_working) ==
    [op |-> op, proxy |-> proxy, none_working |-> none_working]

\* What a ProxyManager on its own leaves alone.
besideProxy == <<scraperVars, rateLimiterVars, retryVars, pipelineVars,
                 soupVars, qualityVars, cleanerVars, dateVars, scrapeVars,
                 paywallVars,
    politeVars>>

\* ProxyManager(max_failures): every proxy working, with the failures and
\* successes of the statistics file.
ProxyInit ==
    /\ ScraperOff /\ RateLimiterOff /\ RetryOff /\ PipelineOff /\ SoupOff
        /\ QualityOff /\ CleanerOff /\ DateOff /\ ScrapeOff /\ PaywallOff
        /\ PoliteOff
    /\ max_failures \in MaxFailuresArgs
    /\ \E loaded \in StatsFiles :
           pm_proxies = [i \in DOMAIN FREE_PROXIES |->
                            ProxyInfo(loaded[i][1], loaded[i][2])]
    /\ current_index = 0
    /\ pm_marks = 0
    /\ pm_last = ProxyCall("__init__", 0, FALSE)

\* get_next_proxy()
GetNextProxy ==
    LET candidates == Candidates(pm_proxies)
        index == (current_index + 1) % Len(candidates)
    IN /\ pm_proxies' = AfterReset(pm_proxies)
       /\ current_index' = index
       \* Python indexes from 0
       /\ pm_last' = ProxyCall("get_next_proxy", candidates[index + 1],
                               WorkingProxies(pm_proxies) = <<>>)
       /\ UNCHANGED <<max_failures, pm_marks, besideProxy>>

\* get_random_proxy()
GetRandomProxy ==
    LET candidates == Candidates(pm_proxies)
    IN /\ pm_proxies' = AfterReset(pm_proxies)
       /\ \E k \in DOMAIN candidates :
              pm_last' = ProxyCall("get_random_proxy", candidates[k],
                                   WorkingProxies(pm_proxies) = <<>>)
       /\ UNCHANGED <<current_index, max_failures, pm_marks, besideProxy>>

\* get_best_proxy_for_domain(domain, min_success_rate)
GetBestProxyForDomain(least_rate) ==
    LET candidates == Candidates(pm_proxies)
        proxies == AfterReset(pm_proxies)
    IN /\ pm_proxies' = proxies
       /\ \E i \in BestChoices(candidates, proxies, least_rate) :
              pm_last' = ProxyCall("get_best_proxy_for_domain", i,
                                   WorkingProxies(pm_proxies) = <<>>)
       /\ UNCHANGED <<current_index, max_failures, pm_marks, besideProxy>>

\* mark_failure(proxy, domain)
MarkFailure(i, domain) ==
    /\ pm_marks < MaxMarks
    /\ LET proxy == record_failure(pm_proxies[i], domain)
       IN pm_proxies' = [pm_proxies EXCEPT ![i] =
              IF proxy.failures >= max_failures
                THEN [proxy EXCEPT !.working = FALSE]
                ELSE proxy]
    /\ pm_marks' = pm_marks + 1
    /\ pm_last' = ProxyCall("mark_failure", i, FALSE)
    /\ UNCHANGED <<current_index, max_failures, besideProxy>>

\* mark_success(proxy, domain)
MarkSuccess(i, domain) ==
    /\ pm_marks < MaxMarks
    /\ pm_proxies' = [pm_proxies EXCEPT ![i] = record_success(@, domain)]
    /\ pm_marks' = pm_marks + 1
    /\ pm_last' = ProxyCall("mark_success", i, FALSE)
    /\ UNCHANGED <<current_index, max_failures, besideProxy>>

ProxyNext ==
    \/ GetNextProxy
    \/ GetRandomProxy
    \/ \E least_rate \in MinSuccessRates :
           GetBestProxyForDomain(least_rate)
    \/ \E i \in DOMAIN FREE_PROXIES, domain \in Domains \cup {NoDomain} :
           MarkFailure(i, domain)
    \/ \E i \in DOMAIN FREE_PROXIES, domain \in Domains \cup {NoDomain} :
           MarkSuccess(i, domain)

SpecProxy == ProxyInit /\ [][ProxyNext]_vars

(* Properties of ProxyManager *)

\* pm_last is the return of one of the three selections.
Selected ==
    pm_last.op \in {"get_next_proxy", "get_random_proxy",
                    "get_best_proxy_for_domain"}

\* C29: the proxy a selection returns is working when it is returned; a
\* selection entered with no proxy working returns with every proxy working
\* and every failures counter 0; and a proxy that is not working has a
\* failures counter of max_failures or more.
C29_SelectionsReturnWorking ==
    /\ Selected =>
           /\ pm_last.proxy \in DOMAIN pm_proxies
           /\ pm_proxies[pm_last.proxy].working
    /\ (Selected /\ pm_last.none_working) =>
           \A i \in DOMAIN pm_proxies :
               pm_proxies[i].working /\ pm_proxies[i].failures = 0
    /\ \A i \in DOMAIN pm_proxies :
           ~pm_proxies[i].working => pm_proxies[i].failures >= max_failures

\* Witness of C29: after marks of failure and of success, a selection that
\* was entered with no proxy working has returned a proxy.
C29_Witness ==
    /\ Selected
    /\ pm_last.none_working
    /\ pm_marks >= Len(FREE_PROXIES)
    /\ \E i \in DOMAIN pm_proxies : pm_proxies[i].domain_failure > 0
    /\ \E i \in DOMAIN pm_proxies : pm_proxies[i].successes > 0

----------------------------------------------------------------------------
(* PoliteSession (polite.py): get with its delay per host and its check of  *)
(* robots.txt.  Time is counted in seconds; a URL is <<netloc, path>>; the  *)
(* robots.txt of a host stays as it is during the session.                  *)

\* Number of get calls made in one behaviour, and the last second of the
\* clock.
MaxGets == 3
MaxClock == 2

Netlocs == {"a.com", "b.com"}
Paths == {"/news", "/private"}
PoliteUrls == Netlocs \X Paths

\* Values of delay_seconds.
DelaySeconds == {0, 2}

\* The robots.txt of the hosts: one host that disallows a path beside one
\* without robots.txt, and one that disallows nothing beside one that
\* disallows a path.
HostFiles ==
    {[n \in Netlocs |-> IF n = "a.com"
                          THEN [exists |-> TRUE, disallow |-> {"/private"}]
                          ELSE [exists |-> FALSE, disallow |-> {}]],
     [n \in Netlocs |-> IF n = "a.com"
                          THEN [exists |-> TRUE, disallow |-> {}]
                          ELSE [exists |-> TRUE, disallow |-> {"/private"}]]}

\* No entry in a dict kept by netloc.
Never == -1
NoParser == [state |-> "none", disallow |-> {}]

\* PoliteSession._netloc(url)
Netloc(url) == url[1]

\* RobotFileParser.read() and the except around it: the rules of the file,
\* allow_all for a file that is not there, and a parser that has read
\* nothing when the request for the file failed.
ReadRobots(file, fetched) ==
    IF ~fetched THEN [state |-> "unchecked", disallow |-> {}]
    ELSE IF ~file.exists THEN [state |-> "allow_all", disallow |-> {}]
    ELSE [state |-> "read", disallow |-> file.disallow]

\* RobotFileParser.can_fetch(user_agent, url): nothing is allowed before
\* a robots.txt was read.
can_fetch(parser, url) ==
    CASE parser.state = "allow_all" -> TRUE
      [] parser.state = "unchecked" -> FALSE
      [] OTHER -> url[2] \notin parser.disallow

\* PoliteSession._robot_parser(url): the cached parser or a new one.
RobotParser(cache, url, file, fetched) ==
    IF cache[Netloc(url)] # NoParser THEN cache[Netloc(url)]
    ELSE ReadRobots(file, fetched)

\* PoliteSession.allowed(url), with the parser it uses.
allowed(settings, parser, url) ==
    IF ~settings.respect_robots THEN TRUE ELSE can_fetch(parser, url)

\* The seconds _sleep_if_needed(netloc) sleeps.
SleepIfNeeded(settings, last, now) ==
    IF settings.delay_seconds <= 0 THEN 0
    ELSE IF last = Never THEN 0
    ELSE LET remaining == settings.delay_seconds - (now - last)
         IN IF remaining > 0 THEN remaining ELSE 0

\* How self._session.get(url) and raise_for_status() end.
Responses == {"ok", "HTTPError", "ConnectionError"}

\* The time of the last request is written for every call of get.
LastRequest_always(last, netloc, now, is_allowed, response) ==
    [last EXCEPT ![netloc] = now]

\* "self._last_request_by_netloc[netloc] = time.time()", after
\* self._session.get returned.
LastRequest(last, netloc, now, is_allowed, response) ==
    IF is_allowed /\ response # "ConnectionError"
      THEN [last EXCEPT ![netloc] = now]
      ELSE last

\* What a PoliteSession on its own leaves alone.
besidePolite == <<scraperVars, rateLimiterVars, retryVars, pipelineVars,
                  soupVars, qualityVars, cleanerVars, dateVars, scrapeVars,
                  paywallVars, proxyVars>>

\* PoliteSession(settings)
PoliteInit ==
    /\ ScraperOff /\ RateLimiterOff /\ RetryOff /\ PipelineOff /\ SoupOff
        /\ QualityOff /\ CleanerOff /\ DateOff /\ ScrapeOff /\ PaywallOff
        /\ ProxyOff
    /\ ps_settings \in [delay_seconds : DelaySeconds, respect_robots : BOOLEAN]
    /\ last_request_by_netloc = [n \in Netlocs |-> Never]
    /\ robots_by_netloc = [n \in Netlocs |-> NoParser]
    /\ ps_robots_txt \in HostFiles
    /\ ps_clock = 0
    /\ ps_sent = {}
    /\ ps_gets = 0
    /\ ps_last = [url |-> <<"", "">>, entered |-> 0, slept |-> 0,
                  sent |-> FALSE, ended |-> "none"]

\* Time passes between two calls.
PoliteTick ==
    /\ ps_clock < MaxClock
    /\ ps_clock' = ps_clock + 1
    /\ UNCHANGED <<ps_settings, last_request_by_netloc, robots_by_netloc,
                   ps_robots_txt, ps_sent, ps_gets, ps_last, besidePolite>>

\* get(url); fetched is whether robots.txt could be requested, response how
\* the request for the URL ends.
PoliteGet(url, fetched, response) ==
    /\ ps_gets < MaxGets
    /\ LET netloc == Netloc(url)
           slept == SleepIfNeeded(ps_settings, last_request_by_netloc[netloc],
                                  ps_clock)
           now == ps_clock + slept
           parser == RobotParser(robots_by_netloc, url, ps_robots_txt[netloc],
                                 fetched)
           is_allowed == allowed(ps_settings, parser, url)
       IN /\ now <= MaxClock + Max(0, ps_settings.delay_seconds)
          /\ ps_clock' = now
          /\ robots_by_netloc' =
                 IF ps_settings.respect_robots
                   THEN [robots_by_netloc EXCEPT ![netloc] = parser]
                   ELSE robots_by_netloc
          /\ ps_sent' = IF is_allowed THEN ps_sent \cup {<<url, now>>}
                        ELSE ps_sent
          /\ last_request_by_netloc' =
                 LastRequest(last_request_by_netloc, netloc, now, is_allowed,
                             response)
          /\ ps_last' = [url |-> url, entered |-> ps_clock, slept |-> slept,
                         sent |-> is_allowed,
                         ended |-> IF ~is_allowed THEN "PermissionError"
                                   ELSE response]
    /\ ps_gets' = ps_gets + 1
    /\ UNCHANGED <<ps_settings, ps_robots_txt, besidePolite>>

PoliteNext ==
    \/ PoliteTick
    \/ \E url \in PoliteUrls, fetched \in BOOLEAN, response \in Responses :
           PoliteGet(url, fetched, response)

SpecPolite == PoliteInit /\ [][PoliteNext]_vars

(* Properties of PoliteSession *)

\* The robots.txt of the host disallows the URL.
Disallowed(url) ==
    /\ ps_robots_txt[Netloc(url)].exists
    /\ url[2] \in ps_robots_txt[Netloc(url)].disallow

\* The last call of get was blocked by robots.txt.
Blocked == ps_last.ended = "PermissionError"

\* C30: with respect_robots, no request was sent for a URL that robots.txt
\* disallows, and a get of such a URL raised PermissionError without
\* sending; the last-request time of a host is the time of a request that
\* was sent to it; and a get sleeps only for the rest of the delay after a
\* request that was sent, so not after a blocked one.
C30_BlockedUrlNeitherSentNorTimed ==
    /\ ps_settings.respect_robots =>
           /\ \A r \in ps_sent : ~Disallowed(r[1])
           /\ (ps_gets > 0 /\ Disallowed(ps_last.url)) => Blocked
    /\ Blocked => ~ps_last.sent
    /\ \A n \in Netlocs :
           last_request_by_netloc[n] # Never =>
               \E r \in ps_sent :
                   Netloc(r[1]) = n /\ r[2] = last_request_by_netloc[n]
    /\ ps_last.slept > 0 =>
           \E r \in ps_sent :
               /\ Netloc(r[1]) = Netloc(ps_last.url)
               /\ r[2] <= ps_last.entered
               /\ ps_last.slept =
                      ps_settings.delay_seconds - (ps_last.entered - r[2])

\* Witness of C30: with a delay of 2 seconds a request was sent to a host,
\* the next get to it, of a disallowed URL, was blocked, and the get after
\* that was sent without sleeping although it came less than 2 seconds after
\* the blocked one.
C30_Witness ==
    /\ ps_settings.respect_robots
    /\ ps_settings.delay_seconds = 2
    /\ ps_gets = 3
    /\ ps_last.sent /\ ps_last.slept = 0
    /\ \E r \in ps_sent :
           /\ Netloc(r[1]) = Netloc(ps_last.url)
           /\ r[2] = ps_last.entered - 2
    /\ Disallowed(<<Netloc(ps_last.url), "/private">>)
    /\ Cardinality(ps_sent) = 2

====
